---- MODULE Spec2Model ----
(***************************************************************************)
(* Synchronization and reconciliation engine of OdooSecurityAudit:         *)
(* the Azure/Entra user merger, the Odoo Postgres merger, the sync-run     *)
(* ledger, the hidden-user registry and the data resets, over a database   *)
(* session model (autoflush off, explicit flush, commit, rollback).        *)
(***************************************************************************)
EXTENDS Integers, Sequences, FiniteSets, TLC

\* Python None and SQL NULL.
NULL == "null"

\* Python truthiness of an optional string (source ids are kept as strings).
Truthy(v) == v # NULL /\ v # ""

\* Row id of "no row": the result of .first() on an empty result, and the id
\* of an object that has not been flushed.
NoRow == 0

\* Python's `a or b`.
Or(a, b) == IF Truthy(a) THEN a ELSE b

(***************************************************************************)
(* Bounds of the model.                                                    *)
(***************************************************************************)
\* Sync runs started between two wipes of the ledger.
MaxRuns == 2

\* Concurrent callers of the sync entry points.
Procs == {1, 2}

Max(S) == CHOOSE x \in S : \A y \in S : y <= x
Min(S) == CHOOSE x \in S : \A y \in S : x <= y

EmptyFn == [x \in {} |-> NULL]

\* Column-wise update of a row by the set attributes of a delta.
ApplyDelta(row, delta) ==
  [c \in DOMAIN row |-> IF c \in DOMAIN delta THEN delta[c] ELSE row[c]]

\* The attributes of `vals` that differ from the object's current value.
Changed(row, vals) ==
  [c \in {k \in DOMAIN vals : vals[k] # row[k]} |-> vals[c]]

(***************************************************************************)
(* Hidden-user registry: normalisation and matching.                       *)
(***************************************************************************)
\* str.strip() and str.lower() on the spellings that occur in the model.
Strip(s) ==
  CASE s = " A1 " -> "A1"
    [] s = "E1 "  -> "E1"
    [] s = " "    -> ""
    [] OTHER      -> s

Lower(s) ==
  CASE s = "A1" -> "a1"
    [] s = "E1" -> "e1"
    [] s = "N1" -> "n1"
    [] s = "N  1" -> "n  1"
    [] s = "N 1" -> "n 1"
    [] s = "John Doe" -> "john doe"
    [] s = "Doe, John" -> "doe, john"
    [] s = "John Roe" -> "john roe"
    [] OTHER    -> s

\* " ".join(value.strip().split()): collapse runs of whitespace.
Collapse(s) ==
  CASE s = "n  1" -> "n 1"
    [] s = "N  1" -> "N 1"
    [] s = " "    -> ""
    [] OTHER      -> Strip(s)

_normalize_token(value) ==
  IF ~Truthy(value) THEN NULL
  ELSE LET token == Lower(Strip(value)) IN IF token = "" THEN NULL ELSE token

_normalize_name(value) ==
  IF ~Truthy(value) THEN NULL
  ELSE LET cleaned == Lower(Collapse(value)) IN IF cleaned = "" THEN NULL ELSE cleaned

\* HiddenUserSignature.from_user
from_user(user) ==
  [azure_id |-> _normalize_token(user.azure_id),
   email    |-> _normalize_token(user.email),
   name     |-> _normalize_name(user.name)]

has_identifier(sig) == Truthy(sig.azure_id) \/ Truthy(sig.email) \/ Truthy(sig.name)

\* A match that asks for every component to agree.
MatchesEveryComponent(entry, sig) ==
  /\ entry.azure_id = sig.azure_id
  /\ entry.email = sig.email
  /\ entry.name = sig.name

_entry_matches_signature(entry, sig) ==
  \/ Truthy(entry.azure_id) /\ Truthy(sig.azure_id) /\ entry.azure_id = sig.azure_id
  \/ Truthy(entry.email) /\ Truthy(sig.email) /\ entry.email = sig.email
  \/ Truthy(entry.name) /\ Truthy(sig.name) /\ entry.name = sig.name

\* Index range of a sequence that satisfies a predicate given as a set.
AnyEntryMatches(es, sig) ==
  \E i \in 1..Len(es) : _entry_matches_signature(es[i], sig)

should_hide_user(es, user) ==
  LET sig == from_user(user) IN has_identifier(sig) /\ AnyEntryMatches(es, sig)

\* An apply that assigns the answer of the registry to the flag.
AssignHiddenFlag(es, user) == should_hide_user(es, user)

\* apply_hidden_flag: the value of user.is_hidden afterwards.
apply_hidden_flag(es, user) ==
  IF should_hide_user(es, user) THEN TRUE ELSE user.is_hidden

\* _coerce_entry: the entry normalised again; an entry without identifier
\* is dropped by the loader (Coercible).
_coerce_entry(entry) ==
  [azure_id |-> _normalize_token(entry.azure_id),
   email    |-> _normalize_token(entry.email),
   name     |-> _normalize_name(entry.name),
   label    |-> Or(entry.label, Or(entry.name, Or(entry.email,
                 Or(entry.azure_id, "Hidden User"))))]

Coercible(entry) == has_identifier(_coerce_entry(entry))

_entry_key(entry) ==
  <<Or(entry.azure_id, ""), Or(entry.email, ""), Or(entry.name, "")>>

\* The loop of _ensure_loaded: coerce, drop, keep the first entry per key.
RECURSIVE Normalized(_, _)
Normalized(raw, acc) ==
  IF raw = << >> THEN acc
  ELSE LET e == _coerce_entry(Head(raw))
       IN IF ~Coercible(Head(raw))
             \/ \E i \in 1..Len(acc) : _entry_key(acc[i]) = _entry_key(e)
          THEN Normalized(Tail(raw), acc)
          ELSE Normalized(Tail(raw), Append(acc, e))

\* A loader that reads the legacy key only.
LoadFileLegacyKey(f) == << >>

\* _ensure_loaded on a registry that has not loaded: no file, or a text
\* json.load rejects, gives the empty list.
LoadFile(f) ==
  IF f.exists /\ f.complete THEN Normalized(f.entries, << >>) ELSE << >>

(***************************************************************************)
(* Source records.                                                         *)
(***************************************************************************)
AzRec(id, dn, mail, upn, dept) ==
  [id |-> id, displayName |-> dn, mail |-> mail, userPrincipalName |-> upn,
   department |-> dept]

\* Records the identity-provider adapter yields: a user, the same user after
\* a change of address with no department, a second user, a record with no
\* field set.
AR1 == AzRec("a1", "n1", "e1", "e1", "d1")
AR2 == AzRec("a1", "n1", NULL, "e2", NULL)
AR3 == AzRec("a2", "n2", "e2", "e2", "d1")
AR4 == AzRec(NULL, NULL, NULL, NULL, NULL)

AzureBatches ==
  { <<AR1>>, <<AR2>>, <<AR3>>, <<AR1, AR3>>, <<AR3, AR2>>, <<AR1, AR4>> }

OgRec(id, name, app, purpose, fns) ==
  [id |-> id, name |-> name, application |-> app, module_name |-> NULL,
   category_name |-> NULL, access_level |-> NULL, purpose |-> purpose,
   allowed_functions |-> fns]

\* Group records of the relational store: a documented group, the same
\* group read without its documentation columns, a group with a category,
\* a third group, a record without a name.
OG1  == OgRec("1", "Sales / User", NULL, "p1", "f1")
OG1b == OgRec("1", "Sales / User", NULL, NULL, NULL)
OG2  == OgRec("2", "Admins", "Administration", NULL, NULL)
OG3  == OgRec("3", "Portal", NULL, NULL, NULL)
OG0  == OgRec("4", NULL, NULL, NULL, NULL)

OuRec(id, name, login) == [id |-> id, name |-> name, login |-> login]

OU1 == OuRec("1", "n1", "e1")
OU2 == OuRec("2", "n2", NULL)
OU3 == OuRec(NULL, NULL, NULL)

Payload(gs, us, ms) ==
  [groups |-> gs, users |-> us, memberships |-> ms, inheritance |-> << >>,
   access_rights |-> << >>]

Edge(uid, gid) == [user_id |-> uid, group_id |-> gid]

OdooPayloads ==
  { Payload(<<OG1>>, <<OU1>>, {Edge("1", "1")}),
    Payload(<<OG2>>, <<OU1>>, {Edge("1", "2")}),
    Payload(<<OG1b, OG0>>, <<OU2>>, {}),
    Payload(<< >>, <<OU3>>, {}) }

\* A payload with the rows of the inheritance and access-right queries.
WithRelations(payload, inheritance, access_rights) ==
  [payload EXCEPT !.inheritance = inheritance, !.access_rights = access_rights]

Parent(parent_id, child_id) == [parent_id |-> parent_id, child_id |-> child_id]

RightRec(id, gid, r, w, c, u) ==
  [id |-> id, group_id |-> gid, perm_read |-> r, perm_write |-> w,
   perm_create |-> c, perm_unlink |-> u]

\* Rows of ir_model_access: a right of group 1, the same right with other
\* flags, a right of the group without a name, a right of a group that is
\* not among the groups.
XR1  == RightRec("10", "1", TRUE, TRUE, FALSE, FALSE)
XR1b == RightRec("10", "1", TRUE, FALSE, FALSE, TRUE)
XR2  == RightRec("11", "4", TRUE, FALSE, FALSE, FALSE)
XR3  == RightRec("12", "9", TRUE, TRUE, TRUE, TRUE)

RelationPayloads ==
  { WithRelations(Payload(<<OG1, OG2>>, <<OU1>>, {Edge("1", "1")}),
                  <<Parent("2", "1")>>, <<XR1>>),
    WithRelations(Payload(<<OG1>>, << >>, {}), << >>, <<XR1b, XR3>>),
    WithRelations(Payload(<<OG1b, OG0>>, << >>, {}), << >>, <<XR1, XR2>>) }

RelationBatches == { <<AR1>> }

\* Payloads of two overlapping relational-store runs.
RacePayloads ==
  { Payload(<<OG1, OG2>>, <<OU1>>, {Edge("1", "1"), Edge("1", "2")}),
    Payload(<<OG2, OG3>>, << >>, {}),
    Payload(<<OG2>>, << >>, {}) }

(***************************************************************************)
(* State.                                                                  *)
(***************************************************************************)
VARIABLES
  users,      \* committed rows of table users
  groups,     \* committed rows of table security_groups
  memberships,\* committed rows of user_group_association: <<user id, group id>>
  inheritance,\* committed rows of group_inheritance: <<child group id, parent group id>>
  accessRights,\* committed rows of table access_rights
  syncRuns,   \* committed rows of table sync_runs, in order of started_at
  entries,    \* HiddenUserRegistry._entries once loaded
  reg,        \* HiddenUserRegistry: loaded or not, the call in progress, its result
  file,       \* the registry file at settings.hidden_user_registry_path
  tmp,        \* the temporary file next to it
  results,    \* committed rows of table comparison_results
  view,       \* the last serialized sync run and the last comparison statistics
  sess,       \* per sync call: its position and its database session
  hist        \* history of operator actions, read by the properties only

vars == <<users, groups, memberships, inheritance, accessRights, syncRuns,
          entries, reg, file, tmp, results, view, sess, hist>>

\* The tables of the relations between groups and of their rights; the
\* registry object and its files; the comparison table and the views.
relations == <<inheritance, accessRights>>
registry == <<entries, reg, file, tmp>>
derived == <<results, view>>

\* User(name=...): is_hidden defaults to false, the other columns to NULL.
\* Of the time in last_seen_in_azure_at the model keeps that it is set.
NewUser(name) ==
  [id |-> NoRow, azure_id |-> NULL, odoo_user_id |-> NULL, email |-> NULL,
   name |-> name, department |-> NULL, source_system |-> NULL,
   is_hidden |-> FALSE, last_seen_in_azure_at |-> NULL]

\* SecurityGroup(name=..., module=..., category=..., access_level=...).
NewGroup(name, module, category, access_level) ==
  [id |-> NoRow, name |-> name, odoo_id |-> NULL, source_system |-> NULL,
   module |-> module, category |-> category, access_level |-> access_level,
   purpose |-> NULL, allowed_functions |-> NULL]

NoPayload == Payload(<< >>, << >>, {})

\* A closed session: nothing pending; `raised` is the exception the last
\* call of this caller ended with (NULL when it returned).
IdleSession ==
  [pc |-> "idle", run |-> 0, stream |-> << >>, batch |-> << >>,
   payload |-> NoPayload, gstream |-> << >>, ustream |-> << >>,
   newU |-> << >>, insU |-> {}, dU |-> EmptyFn, flU |-> EmptyFn,
   insG |-> {}, dG |-> EmptyFn, flG |-> EmptyFn, expunged |-> {},
   group_lookup |-> EmptyFn, user_lookup |-> EmptyFn,
   processed |-> 0, created |-> 0, updated |-> 0,
   groups_created |-> 0, groups_updated |-> 0,
   users_created |-> 0, users_updated |-> 0,
   user |-> NoRow, recovered |-> {}, raised |-> NULL]

NoLast == [type |-> NULL]

\* A path without a file, and a file holding the JSON text of an entry
\* list; `complete` is false while the text is not written to its end.
NoFile == [exists |-> FALSE, complete |-> FALSE, entries |-> << >>]
FileOf(es, complete) == [exists |-> TRUE, complete |-> complete, entries |-> es]

NoUser == [id |-> NoRow]

\* HiddenUserRegistry(path): nothing loaded, no call in progress.  `op`,
\* `ret` (-1: none), `raised` and `flag` describe the last call: its name,
\* its return value, whether it raised and the is_hidden of its argument
\* afterwards; `user` is the argument of an apply and of the call that is
\* inside _persist, `before` the entries at the start of that call.
NewRegistry ==
  [loaded |-> FALSE, pc |-> "idle", op |-> NULL, user |-> NoUser, ret |-> -1,
   raised |-> FALSE, flag |-> FALSE, before |-> << >>]

NoView == [kind |-> NULL]

Init ==
  /\ users = {}
  /\ groups = {}
  /\ memberships = {}
  /\ inheritance = {}
  /\ accessRights = {}
  /\ syncRuns = << >>
  /\ entries = << >>
  /\ reg = NewRegistry
  /\ file = NoFile
  /\ tmp = NoFile
  /\ results = {}
  /\ view = NoView
  /\ sess = [p \in Procs |-> IdleSession]
  /\ hist = [hidden |-> {}, last |-> NoLast, rerun |-> NoLast]

AllIdle == \A p \in Procs : sess[p].pc = "idle"

\* self._entries after _ensure_loaded.
LoadedEntries == IF reg.loaded THEN entries ELSE LoadFile(file)

(***************************************************************************)
(* Session queries.  The session is created with autoflush off, so a query *)
(* is evaluated on the rows of the session's transaction (committed rows   *)
(* plus what the session has flushed) and returns the identity-map object, *)
(* which carries the session's unflushed attribute changes.                *)
(***************************************************************************)
\* query(Model).filter(col == val).first(): id of the matching row or NoRow.
FirstBy(rows, col, val) ==
  LET hits == {r.id : r \in {x \in rows : x[col] = val}}
  IN IF hits = {} THEN NoRow ELSE Min(hits)

RowById(rows, id) == CHOOSE r \in rows : r.id = id

\* Rows with the attribute changes d (row id -> changed attributes) applied.
WithDeltas(rows, d) ==
  {IF r.id \in DOMAIN d THEN ApplyDelta(r, d[r.id]) ELSE r : r \in rows}

\* What a query of session s sees, and the objects it works on.
TxUsers(s)   == WithDeltas(users \cup s.insU, s.flU)
MemUsers(s)  == WithDeltas(users \cup s.insU, s.dU)
TxGroups(s)  == WithDeltas(groups \cup s.insG, s.flG)
MemGroups(s) == WithDeltas(groups \cup s.insG, s.dG)

\* Attribute assignment on a persistent object: the session keeps, per row,
\* the attributes whose value differs from the stored one.
SetAttrs(d, row, vals) ==
  LET before == IF row.id \in DOMAIN d THEN d[row.id] ELSE EmptyFn
  IN (row.id :> Changed(row, vals @@ before)) @@ d

\* Session.flush(): the pending attribute changes reach the transaction.
Flush(s) == [s EXCEPT !.flU = s.dU, !.flG = s.dG]

\* Session.rollback(); expire_all(): inserted rows and pending changes are
\* discarded, the objects inserted in the transaction leave the session.
Rollback(s) ==
  [s EXCEPT !.insU = {}, !.dU = EmptyFn, !.flU = EmptyFn,
            !.insG = {}, !.dG = EmptyFn, !.flG = EmptyFn,
            !.expunged = @ \cup {<<"g", r.id>> : r \in s.insG}
                           \cup {<<"u", r.id>> : r \in s.insU}]

\* Next integer primary key: one past the largest id in use.
FreshId(rows, k) == (IF rows = {} THEN 0 ELSE Max({r.id : r \in rows})) + k

AllUserRows  == users \cup UNION {sess[q].insU : q \in Procs}
AllGroupRows == groups \cup UNION {sess[q].insG : q \in Procs}

(***************************************************************************)
(* Sync-run ledger.                                                        *)
(***************************************************************************)
\* SyncRun.stats of a row without statistics (NULL column).
NoStats == EmptyFn

\* create_sync_run: the row it adds and commits.
create_sync_run(sync_type) ==
  [sync_type |-> sync_type, status |-> "running", stats |-> NoStats,
   error_message |-> NULL]

\* complete_sync_run: the row after the call.
complete_sync_run(run, status, stats, error_message) ==
  [run EXCEPT !.status = status,
              !.stats = IF stats # NoStats THEN stats ELSE @,
              !.error_message = IF Truthy(error_message) THEN error_message ELSE @]

(***************************************************************************)
(* Identity-provider sync.                                                 *)
(***************************************************************************)
\* sync_azure_users up to the first record: the ledger row is committed and
\* the adapter's stream is opened.
StartAzure(p, b) ==
  /\ sess[p].pc = "idle"
  /\ Len(syncRuns) < MaxRuns
  /\ sess' = [sess EXCEPT ![p] =
                [IdleSession EXCEPT !.pc = "azure", !.run = Len(syncRuns) + 1,
                                    !.stream = b, !.batch = b]]
  /\ syncRuns' = Append(syncRuns, create_sync_run("azure_users"))
  /\ UNCHANGED <<users, groups, memberships, relations, registry, derived, hist>>

\* A lookup that tries the email before the azure_id.
AzureResolveEmailFirst(rows, azure_id, email, name) ==
  LET byEmail == IF Truthy(email) THEN FirstBy(rows, "email", email) ELSE NoRow
      byId    == IF byEmail = NoRow /\ Truthy(azure_id)
                 THEN FirstBy(rows, "azure_id", azure_id) ELSE byEmail
  IN IF byId = NoRow /\ Truthy(name) THEN FirstBy(rows, "name", name) ELSE byId

\* The lookup of _upsert_users: azure_id, then email, then name.
AzureResolve(rows, azure_id, email, name) ==
  LET byId    == IF Truthy(azure_id) THEN FirstBy(rows, "azure_id", azure_id) ELSE NoRow
      byEmail == IF byId = NoRow /\ Truthy(email) THEN FirstBy(rows, "email", email) ELSE byId
  IN IF byEmail = NoRow /\ Truthy(name) THEN FirstBy(rows, "name", name) ELSE byEmail

\* The attributes _upsert_users assigns to the resolved or new user.
AzureAssign(azure_id, email, name, department) ==
  [azure_id |-> azure_id, email |-> email, name |-> name,
   department |-> department, source_system |-> "Azure",
   last_seen_in_azure_at |-> "now"]

\* One iteration of the loop of _upsert_users.
AzureUpsertRecord(p) ==
  LET s == sess[p]
      record == Head(s.stream)
      azure_id == record.id
      email == Or(record.mail, record.userPrincipalName)
      name == Or(record.displayName, Or(email, azure_id))
      found == AzureResolve(TxUsers(s), azure_id, email, name)
      vals == AzureAssign(azure_id, email, name, record.department)
  IN /\ s.pc = "azure"
     /\ s.stream # << >>
     /\ sess' = [sess EXCEPT ![p] =
          IF found = NoRow
          THEN [s EXCEPT !.stream = Tail(@), !.processed = @ + 1,
                         !.created = @ + 1, !.user = NoRow,
                         !.newU = Append(@, ApplyDelta(NewUser(Or(name, "Azure-None")), vals))]
          ELSE [s EXCEPT !.stream = Tail(@), !.processed = @ + 1,
                         !.updated = @ + 1, !.user = found,
                         !.dU = SetAttrs(@, RowById(users, found), vals)]]
     /\ UNCHANGED <<users, groups, memberships, relations, syncRuns, registry, derived, hist>>

\* Session.commit() for the users of session s: UPDATEs of the changed
\* attributes, INSERTs of the flushed rows, INSERTs of the pending objects.
CommitUsers(s) ==
  WithDeltas(users \cup s.insU, s.dU)
  \cup {[s.newU[i] EXCEPT !.id = FreshId(AllUserRows, i)] : i \in 1..Len(s.newU)}

\* users.name is NOT NULL: the flush of such a row raises IntegrityError.
ViolatesNotNull(s) == \E i \in 1..Len(s.newU) : s.newU[i].name = NULL

\* The merge a completed run leaves for the next one to be compared with.
LastRun(type, batch, count) == [type |-> type, batch |-> batch, count |-> count]

\* The second of two consecutive merges of one batch.
Rerun(type, batch, count, creates) ==
  IF hist.last.type = type /\ hist.last.batch = batch
  THEN [type |-> type, creates |-> creates, before |-> hist.last.count, after |-> count]
  ELSE NoLast

\* End of the stream: db.commit() of _upsert_users, then
\* complete_sync_run(completed).  A failing commit rolls the session back
\* and the handler of sync_azure_users records the failure.
AzureFinish(p) ==
  LET s == sess[p]
      stats == [processed |-> s.processed, created |-> s.created, updated |-> s.updated]
  IN /\ s.pc = "azure"
     /\ s.stream = << >>
     /\ IF ViolatesNotNull(s)
        THEN /\ users' = users
             /\ syncRuns' = [syncRuns EXCEPT ![s.run] =
                               complete_sync_run(@, "failed", NoStats, "IntegrityError")]
             /\ sess' = [sess EXCEPT ![p] = [IdleSession EXCEPT !.raised = "IntegrityError"]]
             /\ hist' = [hist EXCEPT !.last = NoLast, !.rerun = NoLast]
        ELSE /\ users' = CommitUsers(s)
             /\ syncRuns' = [syncRuns EXCEPT ![s.run] =
                               complete_sync_run(@, "completed", stats, NULL)]
             /\ sess' = [sess EXCEPT ![p] = IdleSession]
             /\ hist' = [hist EXCEPT
                  !.last = LastRun("azure_users", s.batch, Cardinality(users')),
                  !.rerun = Rerun("azure_users", s.batch, Cardinality(users'), s.created)]
     /\ UNCHANGED <<groups, memberships, relations, registry, derived>>

\* The adapter raises (token, HTTP status, connectivity) when the loop asks
\* for the next record.  The handler calls complete_sync_run(failed), whose
\* db.commit() runs on the session that holds the changes of the records
\* merged so far.
AzureAdapterFail(p) ==
  LET s == sess[p]
  IN /\ s.pc = "azure"
     /\ IF ViolatesNotNull(s)
        THEN /\ UNCHANGED <<users, syncRuns>>
             /\ sess' = [sess EXCEPT ![p] = [IdleSession EXCEPT !.raised = "IntegrityError"]]
        ELSE /\ users' = CommitUsers(s)
             /\ syncRuns' = [syncRuns EXCEPT ![s.run] =
                               complete_sync_run(@, "failed", NoStats, "source unavailable")]
             /\ sess' = [sess EXCEPT ![p] = [IdleSession EXCEPT !.raised = "source unavailable"]]
     /\ hist' = [hist EXCEPT !.last = NoLast, !.rerun = NoLast]
     /\ UNCHANGED <<groups, memberships, relations, registry, derived>>

(***************************************************************************)
(* Relational-store sync.                                                  *)
(***************************************************************************)
\* extract_module_and_access_level on the group names of the model: the
\* default pattern and the "module / level" fallback.
extract_module_and_access_level(name) ==
  CASE name = "Sales / User" -> <<"Sales", "User">>
    [] OTHER                 -> <<NULL, NULL>>

\* settings.odoo_environment_display with the default environment.
OdooSource == "Odoo (Pre-Production)"

\* sync_odoo_postgres up to the merge: the ledger row is committed and the
\* payload has been fetched.
StartOdoo(p, payload) ==
  /\ sess[p].pc = "idle"
  /\ Len(syncRuns) < MaxRuns
  /\ sess' = [sess EXCEPT ![p] =
                [IdleSession EXCEPT !.pc = "odoo", !.run = Len(syncRuns) + 1,
                                    !.payload = payload,
                                    !.gstream = payload.groups,
                                    !.ustream = payload.users]]
  /\ syncRuns' = Append(syncRuns, create_sync_run("odoo_postgres"))
  /\ UNCHANGED <<users, groups, memberships, relations, registry, derived, hist>>

\* sync_odoo_postgres when _fetch_from_postgres or _load_mock_payload raises.
OdooFetchFail(p) ==
  /\ sess[p].pc = "idle"
  /\ Len(syncRuns) < MaxRuns
  /\ syncRuns' = Append(syncRuns,
       complete_sync_run(create_sync_run("odoo_postgres"), "failed", NoStats,
                         "source unavailable"))
  /\ sess' = [sess EXCEPT ![p] = [IdleSession EXCEPT !.raised = "source unavailable"]]
  /\ hist' = [hist EXCEPT !.last = NoLast, !.rerun = NoLast]
  /\ UNCHANGED <<users, groups, memberships, relations, registry, derived>>

application_name(record) ==
  Or(record.application, Or(record.module_name, record.category_name))

module_value(record) ==
  Or(application_name(record), extract_module_and_access_level(record.name)[1])

access_level_value(record) ==
  Or(record.access_level, extract_module_and_access_level(record.name)[2])

\* The lookup of a group: odoo_id, then exact name.
GroupResolve(rows, gid, name) ==
  LET byId == IF Truthy(gid) THEN FirstBy(rows, "odoo_id", gid) ELSE NoRow
  IN IF byId = NoRow THEN FirstBy(rows, "name", name) ELSE byId

\* "Update group with Odoo sync information": the attributes assigned to
\* the in-memory object `group`.
GroupAssign(group, record) ==
  LET app == application_name(record)
  IN [odoo_id |-> record.id, source_system |-> OdooSource,
      module |-> IF Truthy(app) THEN app
                 ELSE IF Truthy(module_value(record)) /\ ~Truthy(group.module)
                      THEN module_value(record) ELSE group.module,
      category |-> IF Truthy(app) THEN app ELSE group.category,
      access_level |-> IF Truthy(access_level_value(record)) /\ ~Truthy(group.access_level)
                       THEN access_level_value(record) ELSE group.access_level,
      purpose |-> IF record.purpose # NULL THEN record.purpose ELSE group.purpose,
      allowed_functions |-> record.allowed_functions]

\* The session after the update of the persistent group `id` from `record`.
UpdateGroup(s, id, record) ==
  LET group == RowById(MemGroups(s), id)
      stored == RowById(groups \cup s.insG, id)
  IN [s EXCEPT !.dG = SetAttrs(@, stored, GroupAssign(group, record)),
               !.group_lookup = (record.id :> id) @@ @,
               !.gstream = Tail(@)]

\* A group record of the loop "Process groups" up to the creation: skipped
\* without a name, updated when the lookup finds a row, else left for the
\* insert.
OdooGroupLookup(p) ==
  LET s == sess[p]
      record == Head(s.gstream)
      found == GroupResolve(TxGroups(s), record.id, record.name)
  IN /\ s.pc = "odoo"
     /\ s.gstream # << >>
     /\ sess' = [sess EXCEPT ![p] =
          IF ~Truthy(record.name) THEN [s EXCEPT !.gstream = Tail(@)]
          ELSE IF found # NoRow
               THEN [UpdateGroup(s, found, record) EXCEPT !.groups_updated = @ + 1]
               ELSE [s EXCEPT !.pc = "group_insert"]]
     /\ UNCHANGED <<users, groups, memberships, relations, syncRuns, registry, derived, hist>>

\* security_groups.name is unique.  An INSERT of a name that another open
\* transaction has inserted waits for that transaction to end.
NameHeldByOther(p, name) ==
  \E q \in Procs \ {p} : \E r \in sess[q].insG : r.name = name

\* db.add(group); db.flush() succeeds; then the update of the new group.
OdooGroupInsert(p) ==
  LET s == sess[p]
      record == Head(s.gstream)
      row == [NewGroup(record.name, module_value(record), application_name(record),
                       access_level_value(record))
                EXCEPT !.id = FreshId(AllGroupRows, 1)]
      flushed == [Flush(s) EXCEPT !.insG = @ \cup {row}, !.pc = "odoo",
                                  !.groups_created = @ + 1]
  IN /\ s.pc = "group_insert"
     /\ ~NameHeldByOther(p, record.name)
     /\ FirstBy(groups, "name", record.name) = NoRow
     /\ sess' = [sess EXCEPT ![p] = UpdateGroup(flushed, row.id, record)]
     /\ UNCHANGED <<users, groups, memberships, relations, syncRuns, registry, derived, hist>>

\* A handler that rolls back and skips the record.
RecoverGroupSkips(s, record, rows) ==
  [Rollback(s) EXCEPT !.pc = "odoo", !.gstream = Tail(@)]

\* The handler of IntegrityError: rollback, expire, find the group by name
\* and go on as an update; skip the record if it is not found.
RecoverGroup(s, record, rows) ==
  LET rolled == [Rollback(s) EXCEPT !.pc = "odoo"]
      again == FirstBy(rows, "name", record.name)
  IN IF again = NoRow
     THEN [rolled EXCEPT !.gstream = Tail(@)]
     ELSE [UpdateGroup(rolled, again, record) EXCEPT
             !.groups_updated = @ + 1, !.recovered = @ \cup {record}]

\* db.flush() raises IntegrityError: the name has been committed by another
\* session since the lookup.
OdooGroupConflict(p) ==
  LET s == sess[p]
      record == Head(s.gstream)
  IN /\ s.pc = "group_insert"
     /\ ~NameHeldByOther(p, record.name)
     /\ FirstBy(groups, "name", record.name) # NoRow
     /\ sess' = [sess EXCEPT ![p] = RecoverGroup(s, record, groups)]
     /\ UNCHANGED <<users, groups, memberships, relations, syncRuns, registry, derived, hist>>

\* The lookup of an Odoo user: odoo_user_id, then email.
OdooUserResolve(rows, uid, email) ==
  LET byId == IF Truthy(uid) THEN FirstBy(rows, "odoo_user_id", uid) ELSE NoRow
  IN IF byId = NoRow /\ Truthy(email) THEN FirstBy(rows, "email", email) ELSE byId

\* f"Odoo-{uid}"
OdooFallbackName(uid) == IF uid = NULL THEN "Odoo-None" ELSE "Odoo-" \o uid

\* The attributes assigned to the resolved or new user, apply_hidden_flag
\* included.
OdooUserAssign(user, uid, email) ==
  LET assigned == [user EXCEPT !.odoo_user_id = uid, !.email = Or(email, user.email),
                               !.source_system = OdooSource]
  IN [odoo_user_id |-> assigned.odoo_user_id, email |-> assigned.email,
      source_system |-> assigned.source_system,
      is_hidden |-> apply_hidden_flag(LoadedEntries, assigned)]

\* One iteration of the loop "Process users".  The users table has no
\* unique column besides its key, so the flush of a new user cannot fail.
OdooUserStep(p) ==
  LET s == sess[p]
      record == Head(s.ustream)
      uid == record.id
      name == Or(record.name, record.login)
      email == record.login
      found == OdooUserResolve(TxUsers(s), uid, email)
      row == [NewUser(Or(name, Or(email, OdooFallbackName(uid))))
                EXCEPT !.id = FreshId(AllUserRows, 1)]
      s1 == IF found = NoRow
            THEN [Flush(s) EXCEPT !.insU = @ \cup {row}, !.users_created = @ + 1,
                                  !.user = NoRow]
            ELSE [s EXCEPT !.users_updated = @ + 1, !.user = found]
      id == IF found = NoRow THEN row.id ELSE found
      user == RowById(MemUsers(s1), id)
      stored == RowById(users \cup s1.insU, id)
  IN /\ s.pc = "odoo"
     /\ s.gstream = << >>
     /\ s.ustream # << >>
     /\ sess' = [sess EXCEPT ![p] =
          [s1 EXCEPT !.dU = SetAttrs(@, stored, OdooUserAssign(user, uid, email)),
                     !.user_lookup = (uid :> id) @@ @,
                     !.ustream = Tail(@)]]
     /\ entries' = LoadedEntries
     /\ reg' = [reg EXCEPT !.loaded = TRUE]
     /\ UNCHANGED <<users, groups, memberships, relations, syncRuns, file, tmp, derived, hist>>

\* The loop "Membership associations": the edges appended to group.users.
\* An object expunged by a rollback is in no session, so an edge to it is
\* not written.
NewEdges(s) ==
  {<<s.user_lookup[m.user_id], s.group_lookup[m.group_id]>> :
     m \in {x \in s.payload.memberships :
              /\ x.user_id \in DOMAIN s.user_lookup
              /\ x.group_id \in DOMAIN s.group_lookup
              /\ <<"u", s.user_lookup[x.user_id]>> \notin s.expunged
              /\ <<"g", s.group_lookup[x.group_id]>> \notin s.expunged}}

\* A merge that replaces the groups of every user of the payload.
ReplaceMemberships(existing, new) ==
  {m \in existing : m[1] \notin {n[1] : n \in new}} \cup new

\* group.users after the loop: appended to, never replaced.
MergeMemberships(existing, new) == existing \cup new

\* The loop "Inheritance relationships": the edges appended to
\* child.parent_groups, each once.
NewParents(s) ==
  {<<s.group_lookup[r.child_id], s.group_lookup[r.parent_id]>> :
     r \in {s.payload.inheritance[i] : i \in
              {k \in DOMAIN s.payload.inheritance :
                 /\ s.payload.inheritance[k].parent_id \in DOMAIN s.group_lookup
                 /\ s.payload.inheritance[k].child_id \in DOMAIN s.group_lookup
                 /\ <<"g", s.group_lookup[s.payload.inheritance[k].parent_id]>> \notin s.expunged
                 /\ <<"g", s.group_lookup[s.payload.inheritance[k].child_id]>> \notin s.expunged}}}

\* AccessRight(group_id=..., odoo_access_id=..., perm_*=..., synced_at=now).
\* Of the time the model keeps the run it belongs to.
NewRight(group, record, now) ==
  [id |-> NoRow, group_id |-> group, odoo_access_id |-> record.id,
   perm_read |-> record.perm_read, perm_write |-> record.perm_write,
   perm_create |-> record.perm_create, perm_unlink |-> record.perm_unlink,
   synced_at |-> now]

\* An access right that is added without the query for an existing row.
InsertRight(rows, group, record, now) ==
  rows \cup {[NewRight(group, record, now) EXCEPT !.id = FreshId(rows, 1)]}

\* One access right of the payload: the row of (group, origin id) is
\* queried; it is added and flushed, or its flags and time are assigned.
UpsertRight(rows, group, record, now) ==
  LET hits == {a.id : a \in {x \in rows :
                 x.group_id = group /\ x.odoo_access_id = record.id}}
  IN IF hits = {}
     THEN rows \cup {[NewRight(group, record, now) EXCEPT !.id = FreshId(rows, 1)]}
     ELSE {IF a.id = Min(hits)
           THEN [NewRight(group, record, now) EXCEPT !.id = a.id]
           ELSE a : a \in rows}

\* The loop "Access rights": a record whose group is not in the lookup is
\* skipped.
RECURSIVE UpsertRights(_, _, _, _)
UpsertRights(rows, s, records, now) ==
  IF records = << >> THEN rows
  ELSE LET record == Head(records)
           known == /\ record.group_id \in DOMAIN s.group_lookup
                    /\ <<"g", s.group_lookup[record.group_id]>> \notin s.expunged
       IN UpsertRights(IF known
                       THEN UpsertRight(rows, s.group_lookup[record.group_id], record, now)
                       ELSE rows,
                       s, Tail(records), now)

\* The rest of _upsert_groups and of sync_odoo_postgres: memberships,
\* inheritance, access rights, the single commit, the statistics,
\* complete_sync_run(completed).
OdooFinish(p) ==
  LET s == sess[p]
      count == Cardinality(users') + Cardinality(groups')
      stats == [groups_processed |-> Len(s.payload.groups),
                users_processed |-> Len(s.payload.users),
                groups_created |-> s.groups_created,
                groups_updated |-> s.groups_updated,
                users_created |-> s.users_created,
                users_updated |-> s.users_updated,
                total_groups |-> Cardinality(groups')]
  IN /\ s.pc = "odoo"
     /\ s.gstream = << >>
     /\ s.ustream = << >>
     /\ users' = WithDeltas(users \cup s.insU, s.dU)
     /\ groups' = WithDeltas(groups \cup s.insG, s.dG)
     /\ memberships' = MergeMemberships(memberships, NewEdges(s))
     /\ inheritance' = inheritance \cup NewParents(s)
     /\ accessRights' = UpsertRights(accessRights, s, s.payload.access_rights, s.run)
     /\ syncRuns' = [syncRuns EXCEPT ![s.run] =
                       complete_sync_run(@, "completed", stats, NULL)]
     /\ sess' = [sess EXCEPT ![p] = [IdleSession EXCEPT !.recovered = s.recovered]]
     /\ hist' = [hist EXCEPT
          !.last = LastRun("odoo_postgres", s.payload, count),
          !.rerun = Rerun("odoo_postgres", s.payload, count,
                          s.groups_created + s.users_created)]
     /\ UNCHANGED <<registry, derived>>

(***************************************************************************)
(* Operator actions of the API.  Each runs in a session of its own and     *)
(* commits at once; the resets are taken while no sync call is open.       *)
(***************************************************************************)
Sig(u) == [azure_id |-> u.azure_id, email |-> u.email, name |-> u.name]

Selected(user_ids) == {u \in users : u.id \in user_ids}

\* POST /api/users/hide
hide_users(user_ids) ==
  /\ Selected(user_ids) # {}
  /\ users' = {IF u.id \in user_ids THEN [u EXCEPT !.is_hidden = TRUE] ELSE u : u \in users}
  /\ hist' = [hist EXCEPT !.hidden = @ \cup {Sig(u) : u \in Selected(user_ids)}]
  /\ UNCHANGED <<groups, memberships, relations, syncRuns, registry, derived, sess>>

\* POST /api/users/unhide
unhide_users(user_ids) ==
  /\ Selected(user_ids) # {}
  /\ users' = {IF u.id \in user_ids THEN [u EXCEPT !.is_hidden = FALSE] ELSE u : u \in users}
  /\ hist' = [hist EXCEPT !.hidden =
       {h \in @ : \A u \in Selected(user_ids) :
                    h.azure_id # u.azure_id /\ h.email # u.email /\ h.name # u.name}]
  /\ UNCHANGED <<groups, memberships, relations, syncRuns, registry, derived, sess>>

\* Base.metadata.drop_all; create_all; init_db: every table is emptied.
WipeStore ==
  /\ AllIdle
  /\ users # {} \/ groups # {} \/ syncRuns # << >>
  /\ users' = {}
  /\ groups' = {}
  /\ memberships' = {}
  /\ inheritance' = {}
  /\ accessRights' = {}
  /\ syncRuns' = << >>
  /\ hist' = [hist EXCEPT !.last = NoLast, !.rerun = NoLast]
  /\ UNCHANGED <<registry, derived, sess>>

\* source_system.ilike("Odoo%")
IsOdooSource(v) == v = OdooSource

\* A reset of the directory users that also forgets the overlay.
ResetAzureWithOverlay ==
  /\ AllIdle
  /\ \E u \in users : u.azure_id # NULL \/ u.source_system = "Azure"
  /\ memberships' = {m \in memberships :
       \A u \in users : (u.azure_id # NULL \/ u.source_system = "Azure") => m[1] # u.id}
  /\ users' = {u \in users : ~(u.azure_id # NULL \/ u.source_system = "Azure")}
  /\ entries' = << >>
  /\ file' = NoFile
  /\ hist' = [hist EXCEPT !.last = NoLast, !.rerun = NoLast]
  /\ UNCHANGED <<groups, relations, syncRuns, reg, tmp, derived, sess>>

\* DELETE /api/sync/azure-users
reset_azure_directory ==
  LET azure_user_ids == {u.id : u \in {x \in users :
                            x.azure_id # NULL \/ x.source_system = "Azure"}}
  IN /\ AllIdle
     /\ azure_user_ids # {}
     /\ memberships' = {m \in memberships : m[1] \notin azure_user_ids}
     /\ users' = {u \in users : u.id \notin azure_user_ids}
     /\ hist' = [hist EXCEPT !.last = NoLast, !.rerun = NoLast]
     /\ UNCHANGED <<groups, relations, syncRuns, registry, derived, sess>>

\* DELETE /api/sync/odoo-db
reset_odoo_dataset ==
  LET odoo_group_ids == {g.id : g \in {x \in groups :
                            IsOdooSource(x.source_system) \/ x.odoo_id # NULL}}
      odoo_user_ids == {u.id : u \in {x \in users :
                            IsOdooSource(x.source_system) \/ x.odoo_user_id # NULL}}
  IN /\ AllIdle
     /\ odoo_group_ids # {} \/ odoo_user_ids # {}
     /\ memberships' = {m \in memberships :
                          m[2] \notin odoo_group_ids /\ m[1] \notin odoo_user_ids}
     /\ accessRights' = {a \in accessRights : a.group_id \notin odoo_group_ids}
     /\ groups' = {g \in groups : g.id \notin odoo_group_ids}
     /\ users' = {u \in users : u.id \notin odoo_user_ids}
     /\ hist' = [hist EXCEPT !.last = NoLast, !.rerun = NoLast]
     /\ UNCHANGED <<inheritance, syncRuns, registry, derived, sess>>

(***************************************************************************)
(* Hidden-user registry: the calls of HiddenUserRegistry.  The lock makes  *)
(* a call wait for the one in progress; _persist is taken step by step.    *)
(***************************************************************************)
\* User objects handed to the registry.
RegUser(azure_id, email, name) ==
  [NewUser(name) EXCEPT !.azure_id = azure_id, !.email = email]

RU1 == RegUser(" A1 ", "E1 ", "N  1")
RU2 == RegUser("a1", "e1", "n 1")
RU3 == RegUser("a2", "e2", "n2")
RU4 == RegUser(NULL, "e1", "n2")
RU5 == RegUser(NULL, NULL, " ")
RegUsers == <<RU1, RU2, RU3, RU4, RU5>>

\* The users register and remove are called with; RU2 is RU1 in another
\* spelling and is only looked up.
Operands == {1, 3, 4, 5}

\* The users apply_hidden_flag is called with.
Probes == {2, 4, 5}

\* The entry register_hidden_user and sync_from_database append.
EntryOf(user) ==
  LET signature == from_user(user)
  IN [azure_id |-> signature.azure_id, email |-> signature.email,
      name |-> signature.name,
      label |-> Or(user.name, Or(user.email, Or(user.azure_id, "User")))]

\* The entries that do not match a signature, in order.
RECURSIVE Unmatched(_, _)
Unmatched(es, sig) ==
  IF es = << >> THEN << >>
  ELSE IF _entry_matches_signature(Head(es), sig)
       THEN Unmatched(Tail(es), sig)
       ELSE <<Head(es)>> \o Unmatched(Tail(es), sig)

\* A call that returns without writing.
Returned(op, ret) ==
  [reg EXCEPT !.loaded = TRUE, !.pc = "idle", !.op = op, !.user = NoUser,
              !.ret = ret, !.raised = FALSE, !.before = << >>]

\* A call that goes on into _persist, with the value it will return.
Persisting(op, user, ret, before) ==
  [reg EXCEPT !.loaded = TRUE, !.pc = "open", !.op = op, !.user = user,
              !.ret = ret, !.raised = FALSE, !.before = before]

\* A registration that appends under the key of a different user.
RegisterUnconditional(es, user) == Append(es, EntryOf(user))

\* The entries after register_hidden_user, given those loaded.
Registered(es, user) ==
  IF AnyEntryMatches(es, from_user(user)) THEN es ELSE Append(es, EntryOf(user))

register_hidden_user(user) ==
  LET es == LoadedEntries
      after == Registered(es, user)
  IN /\ reg.pc = "idle"
     /\ IF ~has_identifier(from_user(user))
        THEN /\ reg' = [Returned("register", 0) EXCEPT !.loaded = reg.loaded]
             /\ UNCHANGED entries
        ELSE /\ entries' = after
             /\ reg' = IF after = es THEN Returned("register", 0)
                       ELSE Persisting("register", user, 1, es)
     /\ UNCHANGED <<users, groups, memberships, relations, syncRuns, file, tmp, derived, sess, hist>>

\* A removal that deletes the first matching entry only.
RemoveFirstOnly(es, user) ==
  LET hit == {i \in 1..Len(es) : _entry_matches_signature(es[i], from_user(user))}
  IN IF hit = {} THEN es
     ELSE SubSeq(es, 1, Min(hit) - 1) \o SubSeq(es, Min(hit) + 1, Len(es))

\* The entries after remove_hidden_user, given those loaded.
Removed(es, user) == Unmatched(es, from_user(user))

remove_hidden_user(user) ==
  LET es == LoadedEntries
      after == Removed(es, user)
  IN /\ reg.pc = "idle"
     /\ IF ~has_identifier(from_user(user))
        THEN /\ reg' = [Returned("remove", 0) EXCEPT !.loaded = reg.loaded]
             /\ UNCHANGED entries
        ELSE /\ entries' = after
             /\ reg' = IF Len(after) = Len(es) THEN Returned("remove", 0)
                       ELSE Persisting("remove", user, 1, es)
     /\ UNCHANGED <<users, groups, memberships, relations, syncRuns, file, tmp, derived, sess, hist>>

\* db.query(User).filter(User.is_hidden == True).all(): the hidden rows in
\* the order of their ids.
RECURSIVE InIdOrder(_)
InIdOrder(rows) ==
  IF rows = {} THEN << >>
  ELSE LET first == CHOOSE r \in rows : \A o \in rows : r.id <= o.id
       IN <<first>> \o InIdOrder(rows \ {first})

\* A bootstrap that adds an entry for every hidden user with an identifier.
RECURSIVE BootstrappedAll(_, _)
BootstrappedAll(es, hidden_users) ==
  IF hidden_users = << >> THEN es
  ELSE IF ~has_identifier(from_user(Head(hidden_users)))
       THEN BootstrappedAll(es, Tail(hidden_users))
       ELSE BootstrappedAll(Append(es, EntryOf(Head(hidden_users))), Tail(hidden_users))

\* The loop of sync_from_database over the hidden users.
RECURSIVE Bootstrapped(_, _)
Bootstrapped(es, hidden_users) ==
  IF hidden_users = << >> THEN es
  ELSE LET user == Head(hidden_users)
           signature == from_user(user)
       IN IF ~has_identifier(signature) \/ AnyEntryMatches(es, signature)
          THEN Bootstrapped(es, Tail(hidden_users))
          ELSE Bootstrapped(Append(es, EntryOf(user)), Tail(hidden_users))

sync_from_database ==
  LET es == LoadedEntries
      after == Bootstrapped(es, InIdOrder({u \in users : u.is_hidden}))
      added == Len(after) - Len(es)
  IN /\ reg.pc = "idle"
     /\ AllIdle
     /\ entries' = after
     /\ reg' = IF added = 0 THEN Returned("bootstrap", 0)
               ELSE Persisting("bootstrap", NoUser, added, es)
     /\ UNCHANGED <<users, groups, memberships, relations, syncRuns, file, tmp, derived, sess, hist>>

\* apply_hidden_flag(user) on a user object whose flag is `is_hidden`.
ApplyFlag(user, is_hidden) ==
  LET es == LoadedEntries
      object == [user EXCEPT !.is_hidden = is_hidden]
      sig == from_user(object)
  IN /\ reg.pc = "idle"
     /\ IF ~has_identifier(sig)
        THEN /\ reg' = [Returned("apply", 0) EXCEPT
                          !.loaded = reg.loaded, !.flag = is_hidden, !.user = object]
             /\ UNCHANGED entries
        ELSE /\ entries' = es
             /\ reg' = [Returned("apply", IF should_hide_user(es, object) THEN 1 ELSE 0)
                          EXCEPT !.flag = apply_hidden_flag(es, object), !.user = object]
     /\ UNCHANGED <<users, groups, memberships, relations, syncRuns, file, tmp, derived, sess, hist>>

\* A _persist that writes the payload to the registry path itself.
PersistInPlace(pc) ==
  CASE pc = "open"  -> [pc |-> "dump", file |-> FileOf(<< >>, FALSE), tmp |-> tmp]
    [] pc = "dump"  -> [pc |-> "replace", file |-> FileOf(entries, TRUE), tmp |-> tmp]
    [] OTHER        -> [pc |-> "idle", file |-> file, tmp |-> tmp]

\* One step of _persist: tmp_path.open("w") creates or truncates the
\* temporary file (its text is not complete before the with block is
\* left), json.dump and the close write the payload, and
\* tmp_path.replace(self._path) renames it over the registry file.
PersistStep(pc) ==
  CASE pc = "open"  -> [pc |-> "dump", file |-> file, tmp |-> FileOf(<< >>, FALSE)]
    [] pc = "dump"  -> [pc |-> "replace", file |-> file, tmp |-> FileOf(entries, TRUE)]
    [] OTHER        -> [pc |-> "idle", file |-> tmp, tmp |-> NoFile]

PersistPcs == {"open", "dump", "replace"}

\* The call in progress is over: it returned or it raised.
Ended(raised) ==
  [reg EXCEPT !.pc = "idle", !.raised = raised, !.ret = IF raised THEN -1 ELSE @,
              !.user = NoUser, !.before = << >>]

_persist ==
  LET step == PersistStep(reg.pc)
  IN /\ reg.pc \in PersistPcs
     /\ file' = step.file
     /\ tmp' = step.tmp
     /\ reg' = IF step.pc = "idle" THEN Ended(FALSE) ELSE [reg EXCEPT !.pc = step.pc]
     /\ UNCHANGED <<users, groups, memberships, relations, syncRuns, entries, derived, sess, hist>>

\* mkdir, open, write or replace raises OSError: the call in progress ends
\* with the exception; nothing in the registry handles it.
PersistFails ==
  /\ reg.pc \in PersistPcs
  /\ reg' = Ended(TRUE)
  /\ UNCHANGED <<users, groups, memberships, relations, syncRuns, entries, file, tmp, derived,
                 sess, hist>>

\* reset(delete_file): forget the cached entries, optionally unlink the file.
reset(delete_file) ==
  /\ reg.pc = "idle"
  /\ entries' = << >>
  /\ reg' = [NewRegistry EXCEPT !.op = "reset"]
  /\ file' = IF delete_file THEN NoFile ELSE file
  /\ UNCHANGED <<users, groups, memberships, relations, syncRuns, tmp, derived, sess, hist>>

\* The process dies inside _persist and is started again: a new registry
\* object over the files as they are.
Crash ==
  /\ reg.pc \in PersistPcs
  /\ entries' = << >>
  /\ reg' = [NewRegistry EXCEPT !.op = "crash"]
  /\ UNCHANGED <<users, groups, memberships, relations, syncRuns, file, tmp, derived, sess, hist>>

(***************************************************************************)
(* Hidden-user registry: calls of several threads on one instance.  The    *)
(* registry is [loaded, lock, th, initial]: the holder of self._lock, the  *)
(* position of each thread in its call, and the entries of the file the    *)
(* threads started over.                                                   *)
(***************************************************************************)
Threads == {1, 2}

\* Lock(): held by no thread.
NoThread == 0

\* A thread that has not called: `hidden` is the result of the query of
\* sync_from_database, `overlapped` whether another call was open when
\* this one began, `todo` the rows the loop has still to visit.
IdleThread ==
  [pc |-> "idle", op |-> NULL, user |-> NoUser, hidden |-> << >>, todo |-> << >>,
   ret |-> 0, overlapped |-> FALSE]

\* An acquire that does not wait for the holder.
AcquireUnlocked(lock) == TRUE

\* Lock.acquire(): possible while no thread holds the lock.
CanAcquire(lock) == lock = NoThread

\* The call up to `with self._lock`: the signature is taken (a user without
\* identifier returns False at once), sync_from_database runs its query.
ThreadCall(t, op, user) ==
  LET open == \E o \in Threads \ {t} : reg.th[o].pc \notin {"idle", "done"}
      called == [IdleThread EXCEPT !.op = op, !.user = user, !.overlapped = open]
  IN /\ reg.th[t].pc = "idle"
     /\ reg' = [reg EXCEPT !.th[t] =
          IF op = "bootstrap"
          THEN [called EXCEPT !.pc = "lock", !.user = NoUser,
                              !.hidden = InIdOrder({u \in users : u.is_hidden}),
                              !.todo = InIdOrder({u \in users : u.is_hidden})]
          ELSE IF has_identifier(from_user(user))
               THEN [called EXCEPT !.pc = "lock"]
               ELSE [called EXCEPT !.pc = "done"]]
     /\ UNCHANGED <<users, groups, memberships, relations, syncRuns, entries, file, tmp,
                    derived, sess, hist>>

\* with self._lock: self._ensure_loaded()
ThreadAcquire(t) ==
  /\ reg.th[t].pc = "lock"
  /\ CanAcquire(reg.lock)
  /\ entries' = LoadedEntries
  /\ reg' = [reg EXCEPT !.lock = t, !.loaded = TRUE, !.th[t].pc = "check"]
  /\ UNCHANGED <<users, groups, memberships, relations, syncRuns, file, tmp, derived, sess, hist>>

\* The test of register_hidden_user for a matching entry, the assignment
\* of remove_hidden_user, one iteration of the loop of sync_from_database.
ThreadCheck(t) ==
  LET th == reg.th[t]
      removed == Removed(entries, th.user)
      added == Bootstrapped(entries, <<Head(th.todo)>>)
  IN /\ th.pc = "check"
     /\ CASE th.op = "register" ->
               /\ reg' = [reg EXCEPT !.th[t].pc =
                            IF AnyEntryMatches(entries, from_user(th.user))
                            THEN "release" ELSE "append"]
               /\ UNCHANGED entries
          [] th.op = "remove" ->
               /\ entries' = removed
               /\ reg' = [reg EXCEPT
                    !.th[t].ret = IF Len(removed) # Len(entries) THEN 1 ELSE 0,
                    !.th[t].pc = IF Len(removed) # Len(entries) THEN "persist" ELSE "release"]
          [] th.op = "bootstrap" ->
               IF th.todo = << >>
               THEN /\ reg' = [reg EXCEPT !.th[t].pc =
                                 IF th.ret > 0 THEN "persist" ELSE "release"]
                    /\ UNCHANGED entries
               ELSE /\ entries' = added
                    /\ reg' = [reg EXCEPT !.th[t].todo = Tail(@),
                                          !.th[t].ret = @ + Len(added) - Len(entries)]
     /\ UNCHANGED <<users, groups, memberships, relations, syncRuns, file, tmp, derived, sess, hist>>

\* self._entries.append({...}) of register_hidden_user.
ThreadAppend(t) ==
  /\ reg.th[t].pc = "append"
  /\ entries' = Append(entries, EntryOf(reg.th[t].user))
  /\ reg' = [reg EXCEPT !.th[t].pc = "persist", !.th[t].ret = 1]
  /\ UNCHANGED <<users, groups, memberships, relations, syncRuns, file, tmp, derived, sess, hist>>

\* self._persist(), without its steps and its failures.
ThreadPersist(t) ==
  /\ reg.th[t].pc = "persist"
  /\ file' = FileOf(entries, TRUE)
  /\ reg' = [reg EXCEPT !.th[t].pc = "release"]
  /\ UNCHANGED <<users, groups, memberships, relations, syncRuns, entries, tmp, derived, sess, hist>>

\* The end of the with block and the return.
ThreadRelease(t) ==
  /\ reg.th[t].pc = "release"
  /\ reg' = [reg EXCEPT !.th[t].pc = "done",
                        !.lock = IF @ = t THEN NoThread ELSE @]
  /\ UNCHANGED <<users, groups, memberships, relations, syncRuns, entries, file, tmp,
                 derived, sess, hist>>

(***************************************************************************)
(* Sync status: the recent runs, each serialized with the run before it    *)
(* in the list.                                                            *)
(***************************************************************************)
\* STAT_LABELS, in the order of the dictionary.
STAT_LABELS ==
  << <<"processed", "Processed">>,
     <<"created", "New Records">>,
     <<"updated", "Updated Records">>,
     <<"total_users", "Total Users">>,
     <<"azure_users_total", "Azure Users">>,
     <<"groups_processed", "Groups Processed">>,
     <<"groups_created", "New Groups">>,
     <<"groups_updated", "Groups Updated">>,
     <<"users_created", "New Users">>,
     <<"users_updated", "Users Updated">>,
     <<"total_groups", "Total Groups">>,
     <<"documented_groups", "Documented Groups">>,
     <<"access_rights_created", "Access Rules Added">>,
     <<"access_rights_synced", "Access Rules Synced">>,
     <<"total_access_rights", "Total Access Rules">>,
     <<"orphaned_groups", "Groups Without Users">> >>

activity_fields ==
  {"created", "updated", "groups_created", "groups_updated",
   "users_created", "users_updated"}

\* _parse_stats: the statistics of ledger row `run`, NoStats for no row
\* (NoRow) and for a row without statistics.
_parse_stats(run) == IF run = NoRow THEN NoStats ELSE syncRuns[run].stats

\* The text of a summary: its sentence, the deltas it shows and the number
\* of deltas it leaves out ("(+N more)").
Message(text, preview, more) == [text |-> text, preview |-> preview, more |-> more]

\* dict.get(field, 0) of the statistics.
StatOrZero(stats, field) == IF field \in DOMAIN stats THEN stats[field] ELSE 0

\* _build_change_summary.
_build_change_summary(current, previous) ==
  LET both == SelectSeq(STAT_LABELS, LAMBDA e :
                 /\ e[1] \in DOMAIN current /\ e[1] \in DOMAIN previous
                 /\ current[e[1]] # previous[e[1]])
      diff_items == [i \in 1..Len(both) |->
                       [field |-> both[i][1], label |-> both[i][2],
                        delta |-> current[both[i][1]] - previous[both[i][1]],
                        current |-> current[both[i][1]],
                        previous |-> previous[both[i][1]]]]
      has_activity == \E field \in activity_fields : StatOrZero(current, field) # 0
      shown == SubSeq(diff_items, 1, Min({3, Len(diff_items)}))
  IN IF current = NoStats
     THEN [message |-> Message("No statistics recorded for this sync.", << >>, 0),
           diff |-> << >>, has_changes |-> FALSE]
     ELSE [message |->
             IF diff_items # << >>
             THEN Message("Changes detected",
                          [i \in 1..Len(shown) |->
                             [label |-> shown[i].label, delta |-> shown[i].delta]],
                          Len(diff_items) - Len(shown))
             ELSE IF has_activity
             THEN Message("Sync processed records without net metric changes.", << >>, 0)
             ELSE IF previous # NoStats
             THEN Message("No changes detected since previous sync.", << >>, 0)
             ELSE Message("Initial sync completed.", << >>, 0),
           diff |-> diff_items,
           has_changes |-> diff_items # << >> \/ has_activity]

\* serialize_sync_run of ledger row `run` with `previous_run` (NoRow: None).
serialize_sync_run(run, previous_run) ==
  LET stats == _parse_stats(run)
      change_summary == _build_change_summary(stats, _parse_stats(previous_run))
  IN [id |-> run, type |-> syncRuns[run].sync_type, status |-> syncRuns[run].status,
      stats |-> stats, error |-> syncRuns[run].error_message,
      change_summary |-> change_summary.message,
      differences |-> change_summary.diff,
      has_changes |-> change_summary.has_changes,
      previous_run_id |-> previous_run]

\* list_recent_syncs: the ids of the latest `limit` rows, of one type when
\* sync_type is given, latest first.
list_recent_syncs(sync_type, limit) ==
  LET latest_first == [i \in 1..Len(syncRuns) |-> Len(syncRuns) + 1 - i]
      query == SelectSeq(latest_first, LAMBDA run :
                 Truthy(sync_type) => syncRuns[run].sync_type = sync_type)
  IN SubSeq(query, 1, Min({limit, Len(query)}))

\* The inputs of GET /api/sync/status: no type or one of the two, and the
\* smallest and the default limit.
SyncTypes == {NULL, "azure_users", "odoo_postgres"}
Limits == {1, 10}

\* GET /api/sync/status.
get_sync_status(sync_type, limit) ==
  LET runs == list_recent_syncs(sync_type, limit)
  IN /\ view' = [kind |-> "sync_status",
                 runs |-> [idx \in 1..Len(runs) |->
                             serialize_sync_run(runs[idx],
                               IF idx + 1 <= Len(runs) THEN runs[idx + 1] ELSE NoRow)]]
     /\ UNCHANGED <<users, groups, memberships, relations, syncRuns, registry, results, sess, hist>>

(***************************************************************************)
(* User comparison: the users of the identity provider against the users   *)
(* of the relational store, by lower-cased email.                          *)
(***************************************************************************)
\* The characters of a name of a person or of a column.  A name of the
\* model that is not listed has no comma, blank or capital letter and is
\* kept as one piece.
Chars(name) ==
  CASE name = "John Doe" -> <<"J", "o", "h", "n", " ", "D", "o", "e">>
    [] name = "Doe, John" -> <<"D", "o", "e", ",", " ", "J", "o", "h", "n">>
    [] name = "John Roe" -> <<"J", "o", "h", "n", " ", "R", "o", "e">>
    [] name = "Jane Doe" -> <<"J", "a", "n", "e", " ", "D", "o", "e">>
    [] name = "Doe, Jane" -> <<"D", "o", "e", ",", " ", "J", "a", "n", "e">>
    [] name = "Doe,Jane" -> <<"D", "o", "e", ",", "J", "a", "n", "e">>
    [] name = "JANE  DOE" -> <<"J", "A", "N", "E", " ", " ", "D", "O", "E">>
    [] name = "Jane" -> <<"J", "a", "n", "e">>
    [] name = "Jane Ann Doe" -> <<"J", "a", "n", "e", " ", "A", "n", "n", " ", "D", "o", "e">>
    [] name = "Jane Ann Roe" -> <<"J", "a", "n", "e", " ", "A", "n", "n", " ", "R", "o", "e">>
    [] name = "John Smith" -> <<"J", "o", "h", "n", " ", "S", "m", "i", "t", "h">>
    [] name = "Ann\tDoe" -> <<"A", "n", "n", "\t", "D", "o", "e">>
    [] name = "," -> <<",">>
    [] name = "gid" -> <<"g", "i", "d">>
    [] name = "uid" -> <<"u", "i", "d">>
    [] name = "hid" -> <<"h", "i", "d">>
    [] name = "group_id" -> <<"g", "r", "o", "u", "p", "_", "i", "d">>
    [] name = "user_id" -> <<"u", "s", "e", "r", "_", "i", "d">>
    [] name = "parent_id" -> <<"p", "a", "r", "e", "n", "t", "_", "i", "d">>
    [] name = "child_id" -> <<"c", "h", "i", "l", "d", "_", "i", "d">>
    [] name = "implied_id" -> <<"i", "m", "p", "l", "i", "e", "d", "_", "i", "d">>
    [] name = "rel_a" -> <<"r", "e", "l", "_", "a">>
    [] name = "rel_b" -> <<"r", "e", "l", "_", "b">>
    [] name = "col-1" -> <<"c", "o", "l", "-", "1">>
    [] name = "_" -> <<"_">>
    [] name = "group" -> <<"g", "r", "o", "u", "p">>
    [] name = "user" -> <<"u", "s", "e", "r">>
    [] name = "parent" -> <<"p", "a", "r", "e", "n", "t">>
    [] name = "child" -> <<"c", "h", "i", "l", "d">>
    [] name = "implied" -> <<"i", "m", "p", "l", "i", "e", "d">>
    [] name = ""   -> << >>
    [] OTHER -> <<name>>

\* str.lower(), character by character.
LowerChar(c) ==
  CASE c = "A" -> "a"
    [] c = "D" -> "d"
    [] c = "E" -> "e"
    [] c = "J" -> "j"
    [] c = "N" -> "n"
    [] c = "O" -> "o"
    [] c = "R" -> "r"
    [] c = "S" -> "s"
    [] OTHER -> c

lower(chars) == [i \in DOMAIN chars |-> LowerChar(chars[i])]

\* str.replace(",", ""): the commas are deleted.
replace(chars) == SelectSeq(chars, LAMBDA c : c # ",")

IsSpace(c) == c \in {" ", "\t"}

\* str.split(): the pieces between runs of whitespace; `word` is the piece
\* being read.
RECURSIVE split(_, _)
split(chars, word) ==
  IF chars = << >>
  THEN IF word = << >> THEN {} ELSE {word}
  ELSE IF IsSpace(Head(chars))
       THEN (IF word = << >> THEN {} ELSE {word}) \cup split(Tail(chars), << >>)
       ELSE split(Tail(chars), Append(word, Head(chars)))

\* set(name.lower().replace(",", "").split())
NameParts(name) == split(replace(lower(Chars(name))), << >>)

\* _names_similar: most parts of the shorter name are parts of the other.
_names_similar(name1, name2) ==
  LET n1_parts == NameParts(name1)
      n2_parts == NameParts(name2)
      common == n1_parts \cap n2_parts
  IN /\ Truthy(name1) /\ Truthy(name2)
     /\ Cardinality(common) * 10
          >= Min({Cardinality(n1_parts), Cardinality(n2_parts)}) * 7

\* The names the similarity is asked for: the two orders of a name with and
\* without a blank after the comma, other spellings of it, names sharing
\* one or two of three parts, a name of commas only, no name.
NameInputs ==
  {"Jane Doe", "Doe, Jane", "Doe,Jane", "JANE  DOE", "Jane", "Jane Ann Doe",
   "Jane Ann Roe", "John Smith", "Ann\tDoe", ",", "", NULL}

\* One evaluation of _names_similar for a pair of names.
NamesSimilar(name1, name2) ==
  /\ view' = [kind |-> "names_similar", name1 |-> name1, name2 |-> name2,
              similar |-> _names_similar(name1, name2)]
  /\ UNCHANGED <<users, groups, memberships, relations, syncRuns, registry, results, sess, hist>>

\* str() of a column value inside an f-string.
Str(v) == IF v = NULL THEN "None" ELSE v

\* ComparisonResult(...): the values are kept as the pieces of their text.
ComparisonResult(now, discrepancy_type, user_name, user_email, azure_value, odoo_value) ==
  [comparison_date |-> now, discrepancy_type |-> discrepancy_type,
   user_name |-> user_name, user_email |-> user_email,
   azure_value |-> azure_value, odoo_value |-> odoo_value]

\* The dictionary email -> user built from the rows of `side` in the order
\* of the query: a later row replaces an earlier one with the same email.
ByEmail(side) ==
  [email \in {Lower(u.email) : u \in side} |->
     RowById(side, Max({u.id : u \in {x \in side : Lower(x.email) = email}}))]

\* The users with an email, the hidden ones among them.
UsersWithHidden(rows) ==
  {u \in rows : Truthy(u.email) /\ Truthy(Lower(u.email))}

\* The users the comparison reads: not hidden, with an email.
all_users(rows) ==
  {u \in rows : ~u.is_hidden /\ Truthy(u.email) /\ Truthy(Lower(u.email))}

\* Users that have an azure_id or were seen in the identity provider.
azure_users(rows) ==
  ByEmail({u \in all_users(rows) :
             Truthy(u.azure_id) \/ Truthy(u.last_seen_in_azure_at)})

\* Users that have an odoo_user_id or whose source is "Odoo".
odoo_users(rows) ==
  ByEmail({u \in all_users(rows) :
             Truthy(u.odoo_user_id) \/ u.source_system = "Odoo"})

common_emails(rows) == DOMAIN azure_users(rows) \cap DOMAIN odoo_users(rows)

\* The discrepancies of one run over the rows of the users table.
Discrepancies(rows, now) ==
  LET azure_user(email) == azure_users(rows)[email]
      odoo_user(email) == odoo_users(rows)[email]
      azure_name(email) == Lower(Strip(azure_user(email).name))
      odoo_name(email) == Lower(Strip(odoo_user(email).name))
  IN {ComparisonResult(now, "azure_only", azure_user(email).name, email,
        <<"Azure ID: ", Str(azure_user(email).azure_id),
          ", Dept: ", Str(azure_user(email).department)>>,
        <<"Not found in Odoo">>)
        : email \in DOMAIN azure_users(rows) \ DOMAIN odoo_users(rows)}
     \cup
     {ComparisonResult(now, "odoo_only", odoo_user(email).name, email,
        <<"Not found in Azure">>,
        <<"Odoo User ID: ", Str(odoo_user(email).odoo_user_id)>>)
        : email \in DOMAIN odoo_users(rows) \ DOMAIN azure_users(rows)}
     \cup
     {ComparisonResult(now, "name_mismatch", azure_user(email).name, email,
        <<"Name: ", Str(azure_user(email).name)>>,
        <<"Name: ", Str(odoo_user(email).name)>>)
        : email \in {e \in common_emails(rows) :
            /\ Truthy(azure_name(e)) /\ Truthy(odoo_name(e))
            /\ azure_name(e) # odoo_name(e)
            /\ ~_names_similar(azure_user(e).name, odoo_user(e).name)}}

\* A run that adds its rows to the rows of the runs before it.
ComparedKeepingPrior(prior, rows, now) == prior \cup Discrepancies(rows, now)

\* Table comparison_results after a run: the prior rows are deleted and the
\* discrepancies of this run inserted.
Compared(prior, rows, now) == Discrepancies(rows, now)

\* The number of comparisons of a behaviour.
MaxCompares == 2

\* POST /api/comparison/run: run_user_comparison and the statistics it
\* returns.  The clock reads later than at the comparison before.
run_user_comparison ==
  LET now == hist.compared.at + 1
      type_count(t) == Cardinality({d \in results' : d.discrepancy_type = t})
  IN /\ now <= MaxCompares
     /\ results' = Compared(results, users, now)
     /\ view' = [kind |-> "comparison",
                 stats |-> [total_azure_users |-> Cardinality(DOMAIN azure_users(users)),
                            total_odoo_users |-> Cardinality(DOMAIN odoo_users(users)),
                            users_in_both |-> Cardinality(common_emails(users)),
                            azure_only |-> type_count("azure_only"),
                            odoo_only |-> type_count("odoo_only"),
                            name_mismatches |-> type_count("name_mismatch"),
                            total_discrepancies |-> Cardinality(results'),
                            comparison_date |-> now]]
     /\ hist' = [hist EXCEPT !.compared = [at |-> now, users |-> users]]
     /\ UNCHANGED <<users, groups, memberships, relations, syncRuns, registry, sess>>

(***************************************************************************)
(* Relational adapter: the relation tables whose column names vary with    *)
(* the version of the store.                                               *)
(***************************************************************************)
\* `piece in text`
Contains(text, piece) ==
  \E i \in 1..(Len(text) - Len(piece) + 1) : SubSeq(text, i, i + Len(piece) - 1) = piece

\* 'piece' in col.lower()
ColumnHas(col, piece) == Contains(lower(Chars(col)), Chars(piece))

\* str.isalnum() on the characters of the model: letters, digits, "_", "-".
isalnum(chars) == chars # << >> /\ \A i \in DOMAIN chars : chars[i] \notin {"_", "-"}

\* col.replace('_', '').isalnum()
SafeColumn(col) == isalnum(SelectSeq(Chars(col), LAMBDA c : c # "_"))

\* The memberships read from res_groups_users_rel: `columns` are its columns
\* by ordinal position, `rows` the rows of its first two columns.
Memberships(columns, rows) ==
  LET col1 == columns[1]
      col2 == columns[2]
      group_first == [i \in DOMAIN rows |-> [user_id |-> rows[i][2], group_id |-> rows[i][1]]]
      user_first == [i \in DOMAIN rows |-> [user_id |-> rows[i][1], group_id |-> rows[i][2]]]
  IN IF Len(columns) >= 2
     THEN IF SafeColumn(col1) /\ SafeColumn(col2)
          THEN IF ColumnHas(col1, "gid") \/ ColumnHas(col1, "group") THEN group_first
               ELSE IF ColumnHas(col1, "uid") \/ ColumnHas(col1, "user") THEN user_first
               ELSE group_first
          ELSE << >>
     ELSE << >>

\* The inheritance edges read from res_groups_implied_rel.
Inheritance(columns, rows) ==
  LET col1 == columns[1]
      col2 == columns[2]
      parent_first == [i \in DOMAIN rows |-> [parent_id |-> rows[i][1], child_id |-> rows[i][2]]]
  IN IF Len(columns) >= 2
     THEN IF SafeColumn(col1) /\ SafeColumn(col2)
          THEN IF \/ ColumnHas(col2, "hid") \/ ColumnHas(col2, "child")
                  \/ ColumnHas(col2, "implied")
               THEN parent_first
               ELSE IF ColumnHas(col1, "parent") THEN parent_first
               ELSE parent_first
          ELSE << >>
     ELSE << >>

\* Column names of the relation tables: those of the known versions, names
\* that say nothing about a role, a name that is not safe to quote, "_".
ColumnNames ==
  {"gid", "uid", "hid", "group_id", "user_id", "parent_id", "child_id",
   "implied_id", "rel_a", "rel_b", "col-1", "_"}

\* A table with no column, with one, with two and with three.
ColumnLists ==
  {<< >>} \cup {<<c>> : c \in {"gid", "rel_a"}}
  \cup {cd \in ColumnNames \X ColumnNames : cd[1] # cd[2]}
  \cup {<<"uid", "gid", "rel_a">>}

RelationRows == {<< >>, << <<"1", "2">> >>}

\* The block of _fetch_from_postgres that reads the memberships.  When a
\* query raises (no such table, no permission) the relation is empty.
fetch_memberships(columns, rows, raises) ==
  /\ view' = [kind |-> "relation", relation |-> "memberships", columns |-> columns,
              rows |-> rows,
              result |-> IF raises THEN << >> ELSE Memberships(columns, rows)]
  /\ UNCHANGED <<users, groups, memberships, relations, syncRuns, registry, results, sess, hist>>

\* The block of _fetch_from_postgres that reads the inheritance edges.
fetch_inheritance(columns, rows, raises) ==
  /\ view' = [kind |-> "relation", relation |-> "inheritance", columns |-> columns,
              rows |-> rows,
              result |-> IF raises THEN << >> ELSE Inheritance(columns, rows)]
  /\ UNCHANGED <<users, groups, memberships, relations, syncRuns, registry, results, sess, hist>>

(***************************************************************************)
(* Specifications.                                                         *)
(***************************************************************************)
UserIds == {u.id : u \in users}

\* One caller at a time: sync calls of both types and the data resets.
Next ==
  \/ \E b \in AzureBatches : StartAzure(1, b)
  \/ AzureUpsertRecord(1)
  \/ AzureFinish(1)
  \/ AzureAdapterFail(1)
  \/ \E payload \in OdooPayloads : StartOdoo(1, payload)
  \/ OdooFetchFail(1)
  \/ OdooGroupLookup(1)
  \/ OdooGroupInsert(1)
  \/ OdooUserStep(1)
  \/ OdooFinish(1)
  \/ reset_azure_directory
  \/ reset_odoo_dataset

Spec == Init /\ [][Next]_vars

\* The sync calls and resets of one caller, and the status endpoint.
NextLedger ==
  \/ Next
  \/ \E sync_type \in SyncTypes, limit \in Limits : get_sync_status(sync_type, limit)

SpecLedger == Init /\ [][NextLedger]_vars

\* Rows of the users table for the comparison: a user of the identity
\* provider, users of the relational store under the same email in other
\* letters (one with the same name in another order, one with another
\* name), a user of the identity provider only, a user of the relational
\* store only, a user without email.
CmpUser(id, azure_id, odoo_user_id, email, name, department, source_system, seen) ==
  [id |-> id, azure_id |-> azure_id, odoo_user_id |-> odoo_user_id,
   email |-> email, name |-> name, department |-> department,
   source_system |-> source_system, is_hidden |-> FALSE,
   last_seen_in_azure_at |-> seen]

CU1 == CmpUser(1, "a1", NULL, "E1", "John Doe", "d1", "Azure", "t1")
CU2 == CmpUser(2, NULL, "1", "e1", "Doe, John", NULL, OdooSource, NULL)
CU3 == CmpUser(3, NULL, "2", "e1", "John Roe", NULL, OdooSource, NULL)
CU4 == CmpUser(4, NULL, NULL, "e2", "n2", NULL, "Azure", "t1")
CU5 == CmpUser(5, NULL, NULL, "e3", "n1", NULL, "Odoo", NULL)
CU6 == CmpUser(6, "a3", NULL, NULL, "n3", "d1", "Azure", "t1")

CmpStores ==
  { {CU1, CU2, CU4, CU5}, {CU1, CU3, CU4, CU6}, {CU1, CU2, CU3}, {CU2, CU5, CU6},
    {CU1, CU2, CU3, CU4, CU5} }

InitCompare ==
  /\ users \in CmpStores
  /\ groups = {}
  /\ memberships = {}
  /\ inheritance = {}
  /\ accessRights = {}
  /\ syncRuns = << >>
  /\ entries = << >>
  /\ reg = NewRegistry
  /\ file = NoFile
  /\ tmp = NoFile
  /\ results = {}
  /\ view = NoView
  /\ sess = [p \in Procs |-> IdleSession]
  /\ hist = [hidden |-> {}, last |-> NoLast, rerun |-> NoLast,
             compared |-> [at |-> 0, users |-> {}]]

\* Comparisons, with users hidden and shown again between them.
NextCompare ==
  \/ run_user_comparison
  \/ \E id \in UserIds : hide_users({id})
  \/ \E id \in UserIds : unhide_users({id})

SpecCompare == InitCompare /\ [][NextCompare]_vars

\* The name similarity on every pair of names.
NextNames == \E name1 \in NameInputs, name2 \in NameInputs : NamesSimilar(name1, name2)

SpecNames == Init /\ [][NextNames]_vars

\* Both sources supply a user under the email e1: the identity provider
\* with the display name n1 (AR1), the relational store with the name n2.
OU4 == OuRec("3", "n2", "e1")

EndToEndBatches == { <<AR1>>, <<AR1, AR3>> }
EndToEndPayloads == { Payload(<< >>, <<OU4>>, {}), Payload(<< >>, <<OU4, OU2>>, {}) }

InitEndToEnd ==
  /\ users = {}
  /\ groups = {}
  /\ memberships = {}
  /\ inheritance = {}
  /\ accessRights = {}
  /\ syncRuns = << >>
  /\ entries = << >>
  /\ reg = NewRegistry
  /\ file = NoFile
  /\ tmp = NoFile
  /\ results = {}
  /\ view = NoView
  /\ sess = [p \in Procs |-> IdleSession]
  /\ hist = [hidden |-> {}, last |-> NoLast, rerun |-> NoLast,
             compared |-> [at |-> 0, users |-> {}]]

\* Syncs of both sources, in either order, and comparison runs.
NextEndToEnd ==
  \/ \E b \in EndToEndBatches : StartAzure(1, b)
  \/ AzureUpsertRecord(1)
  \/ AzureFinish(1)
  \/ \E payload \in EndToEndPayloads : StartOdoo(1, payload)
  \/ OdooUserStep(1)
  \/ OdooFinish(1)
  \/ run_user_comparison

SpecEndToEnd == InitEndToEnd /\ [][NextEndToEnd]_vars

\* The relation tables of the relational store under every column list.
NextFetch ==
  \/ \E columns \in ColumnLists, rows \in RelationRows, raises \in BOOLEAN :
       fetch_memberships(columns, rows, raises)
  \/ \E columns \in ColumnLists, rows \in RelationRows, raises \in BOOLEAN :
       fetch_inheritance(columns, rows, raises)

SpecFetch == Init /\ [][NextFetch]_vars

\* Two overlapping relational-store sync calls.
NextRace ==
  \/ \E p \in Procs, payload \in RacePayloads : StartOdoo(p, payload)
  \/ \E p \in Procs : OdooGroupLookup(p)
  \/ \E p \in Procs : OdooGroupInsert(p)
  \/ \E p \in Procs : OdooGroupConflict(p)
  \/ \E p \in Procs : OdooUserStep(p)
  \/ \E p \in Procs : OdooFinish(p)

SpecRace == Init /\ [][NextRace]_vars

\* Hiding users, wiping the store and syncing again.
OverlayBatches == { <<AR1>>, <<AR1, AR3>>, <<AR2>> }

NextOverlay ==
  \/ \E b \in OverlayBatches : StartAzure(1, b)
  \/ AzureUpsertRecord(1)
  \/ AzureFinish(1)
  \/ \E ids \in SUBSET UserIds : hide_users(ids)
  \/ \E ids \in SUBSET UserIds : unhide_users(ids)
  \/ WipeStore

SpecOverlay == Init /\ [][NextOverlay]_vars

\* The registry on its own, over a users table whose rows are the user
\* objects of the model, some of them hidden by the operator.
HiddenRows(H) ==
  {[RegUsers[k] EXCEPT !.id = k, !.is_hidden = (k \in H)] : k \in 1..Len(RegUsers)}

\* The sets of hidden rows the registry is started over.
HiddenSets == {{1, 3, 5}, {3, 4}}

InitRegistry ==
  /\ \E H \in HiddenSets : users = HiddenRows(H)
  /\ groups = {}
  /\ memberships = {}
  /\ inheritance = {}
  /\ accessRights = {}
  /\ syncRuns = << >>
  /\ entries = << >>
  /\ reg = NewRegistry
  /\ file = NoFile
  /\ tmp = NoFile
  /\ results = {}
  /\ view = NoView
  /\ sess = [p \in Procs |-> IdleSession]
  /\ hist = [hidden |-> {}, last |-> NoLast, rerun |-> NoLast]

NextRegistry ==
  \/ \E k \in Operands : register_hidden_user(RegUsers[k])
  \/ \E k \in Operands : remove_hidden_user(RegUsers[k])
  \/ sync_from_database
  \/ \E k \in Probes : \E h \in BOOLEAN : ApplyFlag(RegUsers[k], h)
  \/ _persist
  \/ PersistFails
  \/ \E d \in BOOLEAN : reset(d)
  \/ Crash

SpecRegistry == InitRegistry /\ [][NextRegistry]_vars

\* Sync calls and data resets beside the calls of the registry, over no
\* overlay file or a file with one entry.
InitSurvive ==
  /\ users = {}
  /\ groups = {}
  /\ memberships = {}
  /\ inheritance = {}
  /\ accessRights = {}
  /\ syncRuns = << >>
  /\ entries = << >>
  /\ reg = NewRegistry
  /\ file \in {NoFile, FileOf(<<EntryOf(RU3)>>, TRUE)}
  /\ tmp = NoFile
  /\ results = {}
  /\ view = NoView
  /\ sess = [p \in Procs |-> IdleSession]
  /\ hist = [hidden |-> {}, last |-> NoLast, rerun |-> NoLast]

SurviveOperands == {2, 3}
SurviveBatches == { <<AR1>>, <<AR3>> }
SurvivePayloads == { Payload(<< >>, <<OU2>>, {}) }

NextSurvive ==
  \/ \E b \in SurviveBatches : StartAzure(1, b)
  \/ AzureUpsertRecord(1)
  \/ AzureFinish(1)
  \/ \E payload \in SurvivePayloads : StartOdoo(1, payload)
  \/ OdooUserStep(1)
  \/ OdooFinish(1)
  \/ reset_azure_directory
  \/ reset_odoo_dataset
  \/ \E k \in SurviveOperands : register_hidden_user(RegUsers[k])
  \/ \E k \in SurviveOperands : remove_hidden_user(RegUsers[k])
  \/ sync_from_database
  \/ _persist

SpecSurvive == InitSurvive /\ [][NextSurvive]_vars

\* Sync runs with inheritance and access rights, and the data resets.
NextRelations ==
  \/ \E payload \in RelationPayloads : StartOdoo(1, payload)
  \/ OdooGroupLookup(1)
  \/ OdooGroupInsert(1)
  \/ OdooUserStep(1)
  \/ OdooFinish(1)
  \/ \E b \in RelationBatches : StartAzure(1, b)
  \/ AzureUpsertRecord(1)
  \/ AzureFinish(1)
  \/ reset_azure_directory
  \/ reset_odoo_dataset

SpecRelations == Init /\ [][NextRelations]_vars

\* Two threads, one call each, on a registry over no file or over a file
\* with one entry.
InitThreads ==
  /\ \E H \in HiddenSets : users = HiddenRows(H)
  /\ groups = {}
  /\ memberships = {}
  /\ inheritance = {}
  /\ accessRights = {}
  /\ syncRuns = << >>
  /\ entries = << >>
  /\ file \in {NoFile, FileOf(<<EntryOf(RU3)>>, TRUE)}
  /\ reg = [loaded |-> FALSE, lock |-> NoThread, th |-> [t \in Threads |-> IdleThread],
            initial |-> LoadFile(file)]
  /\ tmp = NoFile
  /\ results = {}
  /\ view = NoView
  /\ sess = [p \in Procs |-> IdleSession]
  /\ hist = [hidden |-> {}, last |-> NoLast, rerun |-> NoLast]

NextThreads ==
  \E t \in Threads :
    \/ \E k \in DOMAIN RegUsers : ThreadCall(t, "register", RegUsers[k])
    \/ \E k \in DOMAIN RegUsers : ThreadCall(t, "remove", RegUsers[k])
    \/ ThreadCall(t, "bootstrap", NoUser)
    \/ ThreadAcquire(t)
    \/ ThreadCheck(t)
    \/ ThreadAppend(t)
    \/ ThreadPersist(t)
    \/ ThreadRelease(t)

SpecThreads == InitThreads /\ [][NextThreads]_vars

(***************************************************************************)
(* Properties.                                                             *)
(***************************************************************************)
\* The step of caller p that ends a sync call (returns or raises).
CallEnds(p) == sess[p].pc # "idle" /\ sess'[p].pc = "idle"

\* The step of caller p that merges one identity-provider record.
AzureStep(p) ==
  sess[p].pc = "azure" /\ sess'[p].pc = "azure" /\ sess'[p].stream # sess[p].stream

\* The step of caller p that merges one relational-store user record.
OdooUserMerged(p) ==
  sess[p].pc = "odoo" /\ sess'[p].pc = "odoo" /\ sess'[p].ustream # sess[p].ustream

\* C1: overlay durability - a canonical user that carries the identity id
\* of a user hidden through the hide operation (and not unhidden since) is
\* hidden, also after the store has been wiped and synced again.
C1_OverlayDurability ==
  \A u \in users : \A h \in hist.hidden :
    (Truthy(h.azure_id) /\ u.azure_id = h.azure_id) => u.is_hidden

\* C2: source unavailable - the step in which a sync call ends with the
\* adapter's error marks the run's ledger row failed with the message and
\* commits no change to users, groups or memberships.
C2_SourceUnavailable ==
  [][\A p \in Procs :
       (sess'[p].raised = "source unavailable" /\ syncRuns' # syncRuns) =>
         /\ syncRuns'[Len(syncRuns')].status = "failed"
         /\ syncRuns'[Len(syncRuns')].error_message = "source unavailable"
         /\ users' = users /\ groups' = groups /\ memberships' = memberships]_vars

\* C3: one transaction per run - when a relational-store run completes,
\* every named group record of its payload has its row in the store, also
\* when a create conflict was recovered inside the run.
C3_AllOrNothing ==
  [][\A p \in Procs :
       (CallEnds(p) /\ sess[p].pc = "odoo" /\ sess'[p].raised = NULL) =>
         \A i \in 1..Len(sess[p].payload.groups) :
           LET record == sess[p].payload.groups[i]
           IN Truthy(record.name) => \E g \in groups' : g.name = record.name]_vars

\* C4: idempotence - the second of two consecutive merges of one batch
\* creates nothing and leaves the entity count of the first.
C4_Idempotence ==
  hist.rerun.type # NULL =>
    hist.rerun.creates = 0 /\ hist.rerun.after = hist.rerun.before

\* C5: user uniqueness - no two canonical users share a non-null identity
\* id, and no two share a non-null email.
C5_UserUniqueness ==
  \A u1 \in users : \A u2 \in users :
    u1.id # u2.id =>
      /\ u1.azure_id # NULL => u1.azure_id # u2.azure_id
      /\ u1.email # NULL => u1.email # u2.email

\* C6: race convergence - a create that meets a committed group of the
\* same name is caught and goes on as an update of that group (counted as
\* updated, entered in the lookup table, the record's id assigned), and the
\* run that recovered ends completed, without an error, with exactly one
\* row for that name.
C6_RaceConvergence ==
  [][\A p \in Procs :
       /\ (sess[p].pc = "group_insert" /\ sess'[p].pc = "odoo"
           /\ FirstBy(groups, "name", Head(sess[p].gstream).name) # NoRow) =>
            LET record == Head(sess[p].gstream)
                row == FirstBy(groups, "name", record.name)
            IN /\ sess'[p].groups_updated = sess[p].groups_updated + 1
               /\ record.id \in DOMAIN sess'[p].group_lookup
               /\ sess'[p].group_lookup[record.id] = row
               /\ RowById(MemGroups(sess'[p]), row).odoo_id = record.id
       /\ (CallEnds(p) /\ sess[p].recovered # {}) =>
            /\ sess'[p].raised = NULL
            /\ syncRuns'[sess[p].run].status = "completed"
            /\ \A record \in sess[p].recovered :
                 Cardinality({g \in groups' : g.name = record.name}) = 1]_vars

\* A run has ended completed after it recovered from a create conflict.
C6_Witness ==
  \E p \in Procs :
    /\ sess[p].pc = "idle" /\ sess[p].recovered # {} /\ sess[p].raised = NULL
    /\ \A record \in sess[p].recovered :
         Cardinality({g \in groups : g.name = record.name}) = 1

\* The row matched by the first of the keys <<column, value>>, in order,
\* that matches any row.
PriorityMatch(rows, keys) ==
  LET matching(i) == {r \in rows : Truthy(keys[i][2]) /\ r[keys[i][1]] = keys[i][2]}
      hit == {i \in 1..Len(keys) : matching(i) # {}}
  IN IF hit = {} THEN NoRow ELSE Min({r.id : r \in matching(Min(hit))})

AzureKeys(record) ==
  LET email == Or(record.mail, record.userPrincipalName)
  IN <<<<"azure_id", record.id>>, <<"email", email>>,
       <<"name", Or(record.displayName, Or(email, record.id))>>>>

OdooKeys(record) ==
  <<<<"odoo_user_id", record.id>>, <<"email", record.login>>,
    <<"name", Or(record.name, record.login)>>>>

C8_AdditiveMembership ==
  [][sess' # sess => memberships \subseteq memberships']_vars

\* After a completed run an edge exists that the run's payload does not
\* contain.
C8_Witness ==
  /\ hist.last.type = "odoo_postgres"
  /\ \E m \in memberships :
       LET u == RowById(users, m[1])
           g == RowById(groups, m[2])
       IN /\ \E x \in users : x.id = m[1]
          /\ \E x \in groups : x.id = m[2]
          /\ \E e \in hist.last.batch.memberships : e.user_id = u.odoo_user_id
          /\ \A e \in hist.last.batch.memberships :
               ~(e.user_id = u.odoo_user_id /\ e.group_id = g.odoo_id)

UserFields == {"azure_id", "odoo_user_id", "email", "name", "department"}
GroupFields == {"odoo_id", "module", "category", "access_level", "purpose",
                "allowed_functions"}

\* C9: never null out - no step of a sync call leaves a field of an
\* existing user or group empty that was populated before it.
C9_NeverNullOut ==
  [][sess' # sess =>
       /\ \A u \in users : \A v \in users' :
            v.id = u.id => \A c \in UserFields : u[c] # NULL => v[c] # NULL
       /\ \A g \in groups : \A h \in groups' :
            h.id = g.id => \A c \in GroupFields : g[c] # NULL => h[c] # NULL]_vars

\* C10: no usable identifier - the merge step of a record without id,
\* secondary identifier and name creates no entity.
C10_NoUsableIdentifier ==
  [][\A p \in Procs :
       /\ (AzureStep(p) /\ \A k \in 1..3 : ~Truthy(AzureKeys(Head(sess[p].stream))[k][2])) =>
            sess'[p].created = sess[p].created /\ sess'[p].newU = sess[p].newU
       /\ (OdooUserMerged(p) /\ \A k \in 1..3 : ~Truthy(OdooKeys(Head(sess[p].ustream))[k][2])) =>
            sess'[p].users_created = sess[p].users_created /\ sess'[p].insU = sess[p].insU]_vars

(***************************************************************************)
(* Properties of the hidden-user registry.                                 *)
(***************************************************************************)
\* The entries a registry holds: those in memory, or those a load would
\* read from the file.
Stored == LoadedEntries

\* Spellings that are equal up to case and whitespace.
Spellings == {{" A1 ", "a1"}, {"E1 ", "e1"}, {"N  1", "n 1"}}
SameUpToCase(a, b) == a = b \/ \E S \in Spellings : a \in S /\ b \in S

\* The normal form of a spelling: the one without capitals and blanks.
NormalForm(v) ==
  IF v = NULL \/ v = " " THEN NULL
  ELSE IF \E S \in Spellings : v \in S
       THEN CHOOSE w \in {"a1", "e1", "n 1"} : SameUpToCase(v, w)
       ELSE v

Components == {"azure_id", "email", "name"}

HasComponent(user) == \E c \in Components : NormalForm(user[c]) # NULL

\* An entry and a user share an identifier component.
Shares(entry, user) ==
  \E c \in Components : entry[c] # NULL /\ entry[c] = NormalForm(user[c])

SharedBy(es, user) == \E i \in 1..Len(es) : Shares(es[i], user)

IsPrefix(a, b) == Len(a) <= Len(b) /\ SubSeq(b, 1, Len(a)) = a

\* The value a call inside _persist is going to return is the one it
\* returns when the write has succeeded.
ReturnsPending ==
  (reg.pc \in PersistPcs /\ reg'.pc = "idle" /\ reg'.op = reg.op /\ ~reg'.raised) =>
    reg'.ret = reg.ret

\* C11: register adds exactly one entry, that of the user, and returns true
\* if and only if the user has an identifier and no stored entry shares a
\* component with it; otherwise it returns false and the entries stay.
C11_Register ==
  [][/\ ReturnsPending
     /\ \A k \in Operands :
          register_hidden_user(RegUsers[k]) =>
            LET user == RegUsers[k]
                es == Stored
            IN IF HasComponent(user) /\ ~SharedBy(es, user)
               THEN /\ reg'.ret = 1
                    /\ Len(entries') = Len(es) + 1
                    /\ IsPrefix(es, entries')
                    /\ \A c \in Components :
                         entries'[Len(entries')][c] = NormalForm(user[c])
               ELSE reg'.ret = 0 /\ Stored' = es]_vars

\* A registration has returned true to a registry that held an entry.
C11_Witness ==
  /\ reg.op = "register" /\ reg.pc = "idle" /\ reg.ret = 1 /\ ~reg.raised
  /\ Len(entries) = 2
  /\ file = FileOf(entries, TRUE)

\* C12: remove deletes every stored entry that shares a component with the
\* user, keeps the others in order, returns true if and only if an entry
\* was deleted, and afterwards the registry does not report the user hidden.
C12_Remove ==
  [][\A k \in Operands :
       remove_hidden_user(RegUsers[k]) =>
         LET user == RegUsers[k]
             es == Stored
             kept == {i \in 1..Len(es) : ~Shares(es[i], user)}
         IN /\ Len(Stored') = Cardinality(kept)
            /\ \A i \in 1..Len(Stored') : \E j \in kept : Stored'[i] = es[j]
            /\ \A i \in kept : \E j \in 1..Len(Stored') : Stored'[j] = es[i]
            /\ (reg'.ret = 1) = (Cardinality(kept) < Len(es))
            /\ reg'.ret \in {0, 1}
            /\ ~should_hide_user(Stored', user)]_vars

\* A removal has deleted two entries at once.
C12_Witness ==
  /\ reg.op = "remove" /\ reg.pc = "open" /\ reg.ret = 1
  /\ Len(reg.before) = 2 /\ entries = << >>

\* Two users whose identifiers are equal up to case and whitespace.
SameIdentity(u, v) == \A c \in Components : SameUpToCase(u[c], v[c])

\* C13: when register has succeeded, a new registry loaded from the file
\* reports hidden, and flags hidden, every user whose identifiers equal the
\* registered ones up to case and surrounding whitespace.
C13_PersistNormalized ==
  [][(/\ reg.op = "register" /\ reg.pc = "replace"
      /\ reg'.op = "register" /\ reg'.pc = "idle" /\ ~reg'.raised) =>
       \A k \in 1..Len(RegUsers) :
         SameIdentity(RegUsers[k], reg.user) =>
           /\ should_hide_user(LoadFile(file'), RegUsers[k])
           /\ apply_hidden_flag(LoadFile(file'), RegUsers[k])]_vars

\* A user registered in capitals and blanks is on file, and a new registry
\* loading that file reports its lower-case spelling hidden.
C13_Witness ==
  /\ reg.op = "register" /\ reg.pc = "idle" /\ reg.ret = 1 /\ ~reg.raised
  /\ file.exists /\ Len(file.entries) = 1
  /\ file.entries[1].label = "N  1"
  /\ should_hide_user(LoadFile(file), RU2)

\* C14: bootstrap appends entries of hidden rows that have an identifier
\* and were not matched when their turn came, returns the number appended,
\* leaves every hidden row with an identifier matched, and a second call
\* right after it returns 0 and changes nothing.
C14_Bootstrap ==
  [][sync_from_database =>
       LET es == Stored
           hidden == {u \in users : u.is_hidden /\ HasComponent(u)}
           new == {i \in 1..Len(entries') : i > Len(es)}
       IN /\ IsPrefix(es, entries')
          /\ reg'.ret = Cardinality(new)
          /\ \A i \in new : \E u \in hidden :
               /\ \A c \in Components : entries'[i][c] = NormalForm(u[c])
               /\ ~SharedBy(es, u)
          /\ \A i \in new : \A j \in new :
               i # j => \A c \in Components :
                 entries'[i][c] = NULL \/ entries'[i][c] # entries'[j][c]
          /\ \A u \in hidden : SharedBy(entries', u)
          /\ (reg.op = "bootstrap" /\ reg.loaded) => (reg'.ret = 0 /\ entries' = entries)]_vars

\* A bootstrap over two hidden rows that share a name has added one entry.
C14_Witness ==
  /\ reg.op = "bootstrap" /\ reg.pc = "idle" /\ reg.ret = 1 /\ ~reg.raised
  /\ Cardinality({u \in users : u.is_hidden}) = 2
  /\ Len(entries) = 1

\* C15: apply leaves a user hidden if it was, makes it hidden exactly when
\* a stored entry shares a component with it, and returns whether it did.
C15_ApplyOverlay ==
  (reg.op = "apply" /\ reg.pc = "idle") =>
    /\ reg.flag = (reg.user.is_hidden \/ SharedBy(Stored, reg.user))
    /\ (reg.ret = 1) = SharedBy(Stored, reg.user)
    /\ reg.user.is_hidden => reg.flag

\* A hidden user that no entry matches has stayed hidden.
C15_Witness ==
  /\ reg.op = "apply" /\ reg.ret = 0 /\ reg.flag /\ reg.user.is_hidden
  /\ HasComponent(reg.user)
  /\ entries # << >>

\* C16: a call whose write fails ends with the error, and the entries in
\* memory are those the call started from.
C16_PersistenceFailure ==
  [][PersistFails => (reg'.raised /\ entries' = reg.before)]_vars

\* C17: while a write is in progress, and when the process dies inside it,
\* the registry file is either as it was or the complete new entry list.
C17_AtomicWrite ==
  [][reg.pc \in PersistPcs =>
       /\ file' = file \/ file' = FileOf(entries, TRUE)
       /\ file'.exists => file'.complete]_vars

\* The process died with the temporary file half written; the registry
\* file holds the complete list written before.
C17_Witness ==
  /\ reg.op = "crash"
  /\ tmp.exists /\ ~tmp.complete
  /\ file.exists /\ file.complete /\ file.entries # << >>


(***************************************************************************)
(* Properties of the sync-run ledger.                                      *)
(***************************************************************************)
\* The step in which caller p enters a sync entry point.
CallStarts(p) == sess[p].pc = "idle" /\ sess'[p].pc # "idle"

\* The ledger rows other than row i are the same before and after the step.
OnlyRowChanges(i) ==
  /\ Len(syncRuns') = Len(syncRuns)
  /\ \A j \in 1..Len(syncRuns) : j # i => syncRuns'[j] = syncRuns[j]

\* C18: ledger lifecycle - a sync call adds exactly one row, with status
\* running; the step in which the call returns or raises leaves that row
\* completed (on return) or failed (on an exception) and changes no other
\* row, so a row is running only while its call is open.
C18_LedgerLifecycle ==
  [][\A p \in Procs :
       /\ CallStarts(p) =>
            /\ syncRuns' = Append(syncRuns, syncRuns'[Len(syncRuns')])
            /\ sess'[p].run = Len(syncRuns')
            /\ syncRuns'[sess'[p].run].status = "running"
       /\ CallEnds(p) =>
            /\ OnlyRowChanges(sess[p].run)
            /\ syncRuns'[sess[p].run].status =
                 IF sess'[p].raised = NULL THEN "completed" ELSE "failed"]_vars

\* The statistics of the run an item of the status view was compared with.
PreviousStats(item) ==
  IF item.previous_run_id = NoRow THEN NoStats ELSE syncRuns[item.previous_run_id].stats

\* The fields present in both statistics whose values differ.
NonZero(item) ==
  {k \in DOMAIN item.stats \cap DOMAIN PreviousStats(item) :
     item.stats[k] # PreviousStats(item)[k]}

\* The fields an item reports a delta for.
Reported(item) == {item.differences[i].field : i \in DOMAIN item.differences}

DeltasRight(item) ==
  \A i \in DOMAIN item.differences :
    LET d == item.differences[i]
    IN d.field \in DOMAIN item.stats \cap DOMAIN PreviousStats(item)
       /\ d.delta = item.stats[d.field] - PreviousStats(item)[d.field]

\* The step in which the status endpoint has answered.
StatusServed == view' # view /\ view'.kind = "sync_status"

\* C19 as stated: an item of the status view whose run has statistics
\* reports a delta for exactly the fields of both statistics that differ;
\* it lists deltas when there are any, says "no changes" when there is a
\* previous run and no delta, and says "initial sync" whenever there is no
\* previous run.
C19_ChangeNarrative ==
  [][StatusServed =>
       \A i \in DOMAIN view'.runs :
         LET item == view'.runs[i]
         IN item.stats # NoStats =>
              /\ Reported(item) = NonZero(item)
              /\ DeltasRight(item)
              /\ NonZero(item) # {} =>
                   /\ item.change_summary.text = "Changes detected"
                   /\ item.change_summary.preview # << >>
              /\ (item.previous_run_id # NoRow /\ NonZero(item) = {}) =>
                   item.change_summary.text = "No changes detected since previous sync."
              /\ item.previous_run_id = NoRow =>
                   item.change_summary.text = "Initial sync completed."]_vars

(***************************************************************************)
(* Properties of the user comparison.                                      *)
(***************************************************************************)
\* What a discrepancy record says: category, subject and rendered values.
Discrepancy(d) ==
  [discrepancy_type |-> d.discrepancy_type, user_name |-> d.user_name,
   user_email |-> d.user_email, azure_value |-> d.azure_value,
   odoo_value |-> d.odoo_value]

\* The step of a comparison run.
ComparisonRuns == hist'.compared.at # hist.compared.at

SideA(rows) ==
  {Lower(u.email) : u \in {x \in rows : /\ ~x.is_hidden /\ Truthy(x.email)
                                        /\ Truthy(x.azure_id) \/ Truthy(x.last_seen_in_azure_at)}}
SideB(rows) ==
  {Lower(u.email) : u \in {x \in rows : /\ ~x.is_hidden /\ Truthy(x.email)
                                        /\ Truthy(x.odoo_user_id) \/ x.source_system = "Odoo"}}

RecordsOf(rs, type, email) ==
  {d \in rs : d.discrepancy_type = type /\ d.user_email = email}

\* C21: comparison partition - a run leaves exactly one azure_only record
\* for each email of a visible identity-provider user that no visible
\* relational-store user has, exactly one odoo_only record for each email
\* the other way round, no one-sided record for any other email, and so
\* none that only a hidden user accounts for.
C21_ComparisonPartition ==
  [][ComparisonRuns =>
       /\ \A email \in SideA(users) \ SideB(users) :
            Cardinality(RecordsOf(results', "azure_only", email)) = 1
       /\ \A email \in SideB(users) \ SideA(users) :
            Cardinality(RecordsOf(results', "odoo_only", email)) = 1
       /\ \A d \in results' :
            /\ d.discrepancy_type = "azure_only" =>
                 d.user_email \in SideA(users) \ SideB(users)
            /\ d.discrepancy_type = "odoo_only" =>
                 d.user_email \in SideB(users) \ SideA(users)]_vars

\* A run over a store with a hidden user that has an email, an email on
\* both sides and an email on each side only.
C21_Witness ==
  /\ hist.compared.at > 0
  /\ hist.compared.users = users
  /\ \E u \in users : u.is_hidden /\ Truthy(u.email)
  /\ SideA(users) \cap SideB(users) # {}
  /\ \E d \in results : d.discrepancy_type = "azure_only"
  /\ \E d \in results : d.discrepancy_type = "odoo_only"

(***************************************************************************)
(* Properties of the name similarity.                                      *)
(***************************************************************************)
\* The maximal runs of characters that are not separators.
Runs(chars, Sep(_)) ==
  {SubSeq(chars, i, j) : <<i, j>> \in
     {ij \in (DOMAIN chars) \X (DOMAIN chars) :
        /\ ij[1] <= ij[2]
        /\ \A k \in ij[1]..ij[2] : ~Sep(chars[k])
        /\ ij[1] = 1 \/ Sep(chars[ij[1] - 1])
        /\ ij[2] = Len(chars) \/ Sep(chars[ij[2] + 1])}}

LowerCased(name) == [i \in DOMAIN Chars(name) |-> LowerChar(Chars(name)[i])]

\* Tokens by lower-casing and splitting on whitespace and on commas.
TokensSplitOnCommas(name) ==
  Runs(LowerCased(name), LAMBDA c : c \in {" ", "\t", ","})

\* At least 0.7 of the smaller token set is in both sets.
OverlapReached(A, B) ==
  Cardinality(A \cap B) * 10 >= Min({Cardinality(A), Cardinality(B)}) * 7

NamesAnswered == view.kind = "names_similar"

\* C22 as stated: two names with tokens are similar exactly when the tokens
\* they share, tokens being split on whitespace and on commas, are at least
\* 0.7 of the smaller token set; the order of the names does not matter.
C22_SimilarityThreshold ==
  (/\ NamesAnswered
   /\ TokensSplitOnCommas(view.name1) # {}
   /\ TokensSplitOnCommas(view.name2) # {}
   /\ Truthy(view.name1) /\ Truthy(view.name2)) =>
    /\ view.similar = OverlapReached(TokensSplitOnCommas(view.name1),
                                     TokensSplitOnCommas(view.name2))
    /\ view.similar = _names_similar(view.name2, view.name1)


(***************************************************************************)
(* Properties of the comparison after the syncs.                           *)
(***************************************************************************)
Completed(sync_type) ==
  \E i \in DOMAIN syncRuns :
    syncRuns[i].sync_type = sync_type /\ syncRuns[i].status = "completed"

\* C23: attribute mismatch end to end - the identity provider has supplied
\* the display name n1 and the relational store the name n2 for the email
\* e1, names that are not similar; a comparison run after both syncs have
\* completed leaves a name_mismatch record for e1.
C23_MismatchEndToEnd ==
  [][(/\ ComparisonRuns
      /\ AllIdle
      /\ Completed("azure_users") /\ Completed("odoo_postgres")
      /\ ~_names_similar(AR1.displayName, OU4.name)) =>
       \E d \in results' :
         d.discrepancy_type = "name_mismatch" /\ d.user_email = Lower(AR1.mail)]_vars

(***************************************************************************)
(* Properties of the relational adapter.                                   *)
(***************************************************************************)
\* The names of the first two columns do not tell which holds which role:
\* none of the words the adapter knows is in either of them.
Ambiguous(relation, columns) ==
  LET words == IF relation = "memberships"
               THEN {"gid", "group", "uid", "user"}
               ELSE {"hid", "child", "implied", "parent"}
  IN \A i \in 1..2 : \A piece \in words : ~ColumnHas(columns[i], piece)

\* C24: schema-drift degradation - a relation table with fewer than two
\* columns, or with column names that do not tell the roles, is read as
\* the empty relation: no role assignment is guessed.
C24_SchemaDrift ==
  view.kind = "relation" =>
    ((Len(view.columns) < 2 \/ Ambiguous(view.relation, view.columns)) =>
       view.result = << >>)

(***************************************************************************)
(* Properties of the registry under concurrent calls.                      *)
(***************************************************************************)
\* The entries and the return value of a call made alone on entries es.
Alone(es, call) ==
  LET after ==
        CASE call.op = "bootstrap" -> Bootstrapped(es, call.hidden)
          [] ~has_identifier(from_user(call.user)) -> es
          [] call.op = "register" -> Registered(es, call.user)
          [] call.op = "remove" -> Removed(es, call.user)
  IN [entries |-> after,
      ret |-> IF call.op = "bootstrap" THEN Len(after) - Len(es)
              ELSE IF Len(after) # Len(es) THEN 1 ELSE 0]

\* The calls made one at a time in the given order give the entries and
\* the return values of the state.
AsIfInOrder(first, second) ==
  LET a == Alone(reg.initial, reg.th[first])
      b == Alone(a.entries, reg.th[second])
  IN /\ Stored = b.entries
     /\ reg.th[first].ret = a.ret
     /\ reg.th[second].ret = b.ret

BothReturned == \A t \in Threads : reg.th[t].pc = "done"

\* C25: registry serialization - when the calls of both threads have
\* returned, entries and return values are those of the two calls made one
\* after the other in some order, and the file holds the entries if any
\* call changed them; two registrations of users that share a component on
\* an empty registry leave one entry, one of them returns true.
C25_RegistrySerialization ==
  BothReturned =>
    /\ AsIfInOrder(1, 2) \/ AsIfInOrder(2, 1)
    /\ (\E t \in Threads : reg.th[t].ret > 0) => LoadFile(file) = entries
    /\ (/\ reg.initial = << >>
        /\ \A t \in Threads : reg.th[t].op = "register"
        /\ _entry_matches_signature(EntryOf(reg.th[1].user), from_user(reg.th[2].user))) =>
         /\ Len(entries) = 1
         /\ reg.th[1].ret + reg.th[2].ret = 1

\* Two registrations of users that share the email, the second begun while
\* the first was open, have returned: one entry, one true.
C25_Witness ==
  /\ BothReturned
  /\ reg.initial = << >>
  /\ reg.th[1].op = "register" /\ reg.th[1].user = RU1
  /\ reg.th[2].op = "register" /\ reg.th[2].user = RU4
  /\ reg.th[2].overlapped
  /\ reg.th[1].ret = 0 /\ reg.th[2].ret = 1
  /\ Len(entries) = 1

(***************************************************************************)
(* Properties of the run a status item is compared with.                   *)
(***************************************************************************)
\* The runs started before run `id` with the sync type of run `id`.
EarlierOfType(id) ==
  {j \in 1..(id - 1) : syncRuns[j].sync_type = syncRuns[id].sync_type}

\* C26: diff against the prior run of the same type - every item of the
\* status view whose statistics are compared with the statistics of a run
\* is compared with the latest of the earlier runs of its own sync type,
\* whatever the type filter.
C26_DiffAgainstSameType ==
  view.kind = "sync_status" =>
    \A idx \in DOMAIN view.runs :
      LET item == view.runs[idx]
      IN (item.stats # NoStats /\ PreviousStats(item) # NoStats) =>
           /\ item.previous_run_id \in EarlierOfType(item.id)
           /\ \A j \in EarlierOfType(item.id) : j <= item.previous_run_id

(***************************************************************************)
(* Properties of the overlay beside syncs and resets.                      *)
(***************************************************************************)
\* A step of a sync call or of a data reset: it changes a table or the
\* position of a sync session, which no call of the registry does.
DataStep ==
  <<users, groups, memberships, syncRuns, sess>>' # <<users, groups, memberships, syncRuns, sess>>

RegistryCalls == {"register", "remove", "bootstrap"}

OneRowPerKey(rows) ==
  \A a, b \in rows :
    (a.group_id = b.group_id /\ a.odoo_access_id = b.odoo_access_id) => a = b

\* The step in which the relational-store run of caller p completes.
OdooCompletes(p) ==
  /\ sess[p].pc = "odoo"
  /\ sess'[p].pc = "idle"
  /\ syncRuns'[sess[p].run].status = "completed"

\* After the step a row of the group with the origin id of the record's
\* group holds the flags of the record and the time of the run.
RightStored(record, now) ==
  \E a \in accessRights' :
    /\ a.odoo_access_id = record.id
    /\ \E g \in groups' : g.id = a.group_id /\ g.odoo_id = record.group_id
    /\ a.perm_read = record.perm_read
    /\ a.perm_write = record.perm_write
    /\ a.perm_create = record.perm_create
    /\ a.perm_unlink = record.perm_unlink
    /\ a.synced_at = now

GroupInPayload(payload, gid) ==
  \E i \in DOMAIN payload.groups : payload.groups[i].id = gid

\* The group records the merge does not skip: those with a name.
GroupMerged(payload, gid) ==
  \E i \in DOMAIN payload.groups :
    payload.groups[i].id = gid /\ Truthy(payload.groups[i].name)

\* C28 as stated: AccessRight upsert - there is at most one row per
\* (group, origin right id), and when a run completes every right of its
\* payload whose group is in the payload is stored with the flags of the
\* payload and the time of the run.
C28_AccessRightUpsert ==
  [][/\ OneRowPerKey(accessRights')
     /\ \A p \in Procs : OdooCompletes(p) =>
          \A i \in DOMAIN sess[p].payload.access_rights :
            LET record == sess[p].payload.access_rights[i]
            IN GroupInPayload(sess[p].payload, record.group_id) =>
                 RightStored(record, sess[p].run)]_vars

\* C28 amended: AccessRight upsert - there is at most one row per (group,
\* origin right id), and when a run completes every right of its payload
\* whose group is a group of the payload with a name is stored with the
\* flags of the payload and the time of the run.
C28_AccessRightUpsertAmended ==
  [][/\ OneRowPerKey(accessRights')
     /\ \A p \in Procs : OdooCompletes(p) =>
          \A i \in DOMAIN sess[p].payload.access_rights :
            LET record == sess[p].payload.access_rights[i]
            IN GroupMerged(sess[p].payload, record.group_id) =>
                 RightStored(record, sess[p].run)]_vars

\* The second run found the group of the first and overwrote its right:
\* one row, with the flags and the time of the second run.
C28_Witness ==
  /\ Len(syncRuns) = 2
  /\ syncRuns[1].status = "completed"
  /\ syncRuns[2].status = "completed"
  /\ syncRuns[2].sync_type = "odoo_postgres"
  /\ syncRuns[2].stats.groups_updated = 1
  /\ Cardinality(accessRights) = 1
  /\ \E a \in accessRights :
       /\ a.odoo_access_id = XR1b.id
       /\ a.perm_write = XR1b.perm_write
       /\ a.perm_unlink = XR1b.perm_unlink
       /\ a.synced_at = 2

(***************************************************************************)
(* Properties of the stored entries taken together.                        *)
(***************************************************************************)
\* No two entries of the sequence have the same non-empty value in the
\* same component.
PairwiseDisjoint(es) ==
  \A i, j \in DOMAIN es :
    i # j => \A k \in Components : Truthy(es[i][k]) => es[i][k] # es[j][k]

\* C29: registry entries pairwise disjoint - on a registry that started
\* without a file, no two entries in memory and no two entries in the file
\* share a non-empty identity id, email or name.
C29_EntriesDisjoint ==
  /\ PairwiseDisjoint(entries)
  /\ PairwiseDisjoint(LoadFile(file))

\* Two entries are stored and written, and the last registration was
\* turned down.
C29_Witness ==
  /\ Len(entries) = 2
  /\ LoadFile(file) = entries
  /\ reg.pc = "idle"
  /\ reg.op = "register"
  /\ reg.ret = 0
  /\ ~reg.raised

(***************************************************************************)
(* Properties of the rows left by a data reset.                            *)
(***************************************************************************)
\* The ids of the users and of the groups that the step deletes.
DeletedUsers == {u.id : u \in users} \ {u.id : u \in users'}
DeletedGroups == {g.id : g \in groups} \ {g.id : g \in groups'}

\* C30: no dangling references after reset - after a step that deletes
\* users or groups, no membership, access right or inheritance edge names
\* a deleted user or group.
C30_NoDanglingReferences ==
  [][(DeletedUsers # {} \/ DeletedGroups # {}) =>
       /\ \A m \in memberships' : m[1] \notin DeletedUsers /\ m[2] \notin DeletedGroups
       /\ \A a \in accessRights' : a.group_id \notin DeletedGroups
       /\ \A e \in inheritance' : e[1] \notin DeletedGroups /\ e[2] \notin DeletedGroups]_vars
====
